---- MODULE Spec2Model ----
(***************************************************************************)
(* Model of the graph materialization engine of the finance data           *)
(* relationship explorer: GraphBuilder (services/graph_builder.py),        *)
(* GraphService (services/graph_service.py) and the result cache           *)
(* (cache/cache_manager.py, cache/memory_cache.py, cache_interface.py).    *)
(*                                                                         *)
(* The recursion of _build_graph_recursive is an explicit stack of frames; *)
(* one action is one stretch of code between two data-provider calls.      *)
(* Provider answers are chosen when the call is made.                      *)
(***************************************************************************)
EXTENDS Integers, Sequences, FiniteSets, TLC

\* ---------------------------------------------------------------- bounds
NumIds == 3          \* entity identifiers 1..NumIds known to the providers
MaxErrors == 1       \* provider failures (raise / nothing) per traversal
MaxFetches == 3      \* related ids handed out per traversal
NumThreads == 2      \* threads calling the service at once
MaxOptions == 3      \* options in the file
MaxPage == 3         \* pages asked for
MaxPageSize == 2     \* rows per page
MaxCalls == 2        \* service calls per behaviour
MaxClock == 450      \* the clock stops here
TickStep == 150      \* seconds between two observations of the clock

\* ------------------------------------------------------- program constants
max_initial_depth == 2
ExpandDepth == 1
default_ttl == 300       \* CacheManager._default_ttl
GraphBuildTtl == 300     \* GraphService.build_initial_graph
NodeExpandTtl == 180     \* GraphService.expand_node
NoExpiry == -1           \* CacheEntry.expires_at = None

None == "None"

\* ------------------------------------------------------------ entity data
Ids == 1..NumIds

\* the class of the entity a provider builds for an identifier
TypeOf(n) == IF n % 2 = 1 THEN "Stock" ELSE "Listing"

\* BaseEntity.id of an entity
EntId(n) == <<n, "">>

\* a placeholder id that leaves out the relationship name
TreeId_Nameless(sid, name) == <<sid[1], "tree">>

\* TreeListNode ids are "<source id>_<name>"
TreeId(sid, name) == <<sid[1], name>>

\* to_node_dict of an entity built at time t ("asOf": datetime.now())
EntityNode(n, t) ==
    [id |-> EntId(n), entity_type |-> TypeOf(n), totalCount |-> 0, asOf |-> t]

TreeListNode(sid, rel, cnt, t) ==
    [id |-> TreeId(sid, rel.name), entity_type |-> "TreeListNode",
     totalCount |-> cnt, asOf |-> t]

\* -------------------------------------------------- relationship catalog
AllFields == {"name", "target_type", "relationship_label"}

Rel(n, t, l, e, d, f) ==
    [name |-> n, target_type |-> t, relationship_label |-> l,
     expensive |-> e, display_in_graph |-> d, fields |-> f]

HAS_LISTING == Rel("HAS_LISTING", "Listing", "LISTING", FALSE, TRUE, AllFields)
PRIMARY_LISTING == Rel("PRIMARY_LISTING", "Listing", "PRIMARY", FALSE, TRUE, AllFields)
HAS_ISSUER == Rel("HAS_ISSUER", "InstrumentParty", "ISSUER", FALSE, TRUE, AllFields)
IS_UNDERLYING_FOR == Rel("IS_UNDERLYING_FOR", "Option", "HAS_OPTIONS", TRUE, TRUE, AllFields)
LISTED_ON == Rel("LISTED_ON", "Exchange", "EXCHANGE", FALSE, TRUE, AllFields)
LISTING_OF == Rel("LISTING_OF", "Stock", "INSTRUMENT", FALSE, TRUE, AllFields)
HAS_TRADES == Rel("HAS_TRADES", "Stock", "TRADES", TRUE, TRUE, AllFields)
HIDDEN_REL == Rel("HAS_AUDIT", "Listing", "AUDIT", FALSE, FALSE, AllFields)
HAS_INDEX == Rel("HAS_INDEX", "Index", "INDEX", FALSE, TRUE, AllFields)
\* entries written with other key names (config/relationship_definition.py
\* uses "label" and "targetType"): the keys the builder reads are missing
NO_LABEL_EXP == Rel("IS_UNDERLYING_FOR", "Option", None, TRUE, TRUE, {"name", "target_type"})
NO_LABEL == Rel("HAS_LISTING", "Listing", None, FALSE, TRUE, {"name", "target_type"})
NO_TARGET == Rel("HAS_LISTING", None, "LISTING", FALSE, TRUE, {"name", "relationship_label"})

Catalog(stock, listing) ==
    [t \in {"Stock", "Listing"} |-> IF t = "Stock" THEN stock ELSE listing]

IssuerCatalog ==
    Catalog(<<HAS_LISTING, HAS_ISSUER, IS_UNDERLYING_FOR>>, <<LISTED_ON>>)

Catalogs ==
    { IssuerCatalog,
      Catalog(<<HAS_LISTING, PRIMARY_LISTING>>, <<LISTING_OF>>),
      Catalog(<<IS_UNDERLYING_FOR, HAS_LISTING, IS_UNDERLYING_FOR>>,
              <<LISTING_OF, HAS_TRADES>>),
      Catalog(<<HIDDEN_REL, HAS_INDEX, HAS_LISTING>>, <<NO_LABEL_EXP, LISTING_OF>>),
      Catalog(<<NO_LABEL, NO_TARGET, HAS_LISTING, NO_LABEL_EXP>>, <<>>) }

\* ConfigurationManager.get_entity_relationships
get_entity_relationships(cat, t) ==
    IF t \in DOMAIN cat THEN cat[t] ELSE <<>>

\* ------------------------------------------------------ provider registry
provider_map ==
    [t \in {"Stock", "Option", "Future", "Bond", "Listing", "Exchange",
            "InstrumentParty", "Client"} |->
        CASE t \in {"Stock", "Option", "Future", "Bond"} -> "InstrumentDataProvider"
          [] t = "Listing" -> "ListingDataProvider"
          [] t = "Exchange" -> "ExchangeDataProvider"
          [] OTHER -> "PartyDataProvider"]

AllProviders == {"InstrumentDataProvider", "ListingDataProvider",
                 "ExchangeDataProvider", "PartyDataProvider"}

Registries == {AllProviders, AllProviders \ {"PartyDataProvider"}}

\* the deployments explored: every catalog with every provider configured,
\* and the catalog that names a party type without the party provider
Deployments ==
    {<<c, AllProviders>> : c \in Catalogs}
        \cup {<<IssuerCatalog, r>> : r \in Registries}

\* GraphBuilder._get_data_provider: TRUE when a provider is returned,
\* FALSE when it raises ValueError
HasDataProvider(reg, t) ==
    /\ t \in DOMAIN provider_map
    /\ provider_map[t] \in reg

\* answers of get_related_entity_ids: no id, one id, or two ids that may
\* be the same
RelatedLists ==
    {<<>>} \cup {<<a>> : a \in Ids} \cup {<<a, b>> : a, b \in Ids}

\* len(related_ids) in _get_expensive_relationship_count
RelatedCounts == {Len(l) : l \in RelatedLists}

\* ------------------------------------------------------------------ state
VARIABLES
    catalog,            \* ConfigurationManager._relationship_config
    data_providers,     \* GraphBuilder.data_providers (registered names)
    call,               \* the GraphBuilder call in progress
    status,             \* "idle", "running", "returned" or "raised"
    max_depth,          \* max_depth argument of _build_graph_recursive
    nodes,              \* nodes list
    edges,              \* edges list
    visited_entities,   \* visited_entities set
    stack,              \* activation records of _build_graph_recursive
    expanded,           \* history: entities whose relationship loop began
    completed,          \* history: entities whose relationship loop ended
    relLog,             \* history: get_related_entity_ids calls and answers
    fetchLog,           \* history: get_entity_by_id calls for targets
    errLog,             \* history: provider failures, in order
    fetches,            \* history: related ids handed out so far
    cache_store,        \* MemoryCache._cache: key -> CacheEntry
    enabled,            \* CacheManager._enabled
    now,                \* datetime.now(), in seconds
    svc,                \* the GraphService / cached_method call in progress
    calls               \* history: service calls made so far

cfgVars == <<catalog, data_providers>>
bVars == <<call, status, max_depth, nodes, edges, visited_entities, stack>>
hVars == <<expanded, completed, relLog, fetchLog, errLog, fetches>>
cVars == <<cache_store, enabled, now>>
sVars == <<svc, calls>>
vars == <<cfgVars, bVars, hVars, cVars, sVars>>

NoCall == [op |-> "none", root |-> 0]

\* a service call: op and cache key, where it stands, and history: en
\* (cache enabled at the lookup), hit, computes (computations started),
\* ret (what it returned), after_failure (the call before it had the same
\* key, missed the enabled cache and failed), evicted (the lookup found an
\* expired entry and deleted it)
SvcRec(op, key, pc, en, hit, n, ttl, ret, af, ev) ==
    [op |-> op, key |-> key, pc |-> pc, en |-> en, hit |-> hit,
     computes |-> n, ttl |-> ttl, ret |-> ret, after_failure |-> af,
     evicted |-> ev]

NoSvc == SvcRec("none", <<>>, "idle", FALSE, FALSE, 0, 0,
                [kind |-> "none", nodes |-> <<>>, edges |-> <<>>], FALSE, FALSE)

InitBuilder ==
    /\ call = NoCall
    /\ status = "idle"
    /\ max_depth = 0
    /\ nodes = <<>>
    /\ edges = <<>>
    /\ visited_entities = {}
    /\ stack = <<>>
    /\ expanded = {}
    /\ completed = {}
    /\ relLog = {}
    /\ fetchLog = {}
    /\ errLog = <<>>
    /\ fetches = 0

\* ------------------------------------------------------------ result cache
\* values a cache can hold or a wrapped function can return; Python None,
\* a falsy non-None value (0, [], {}), an object, a graph result
Value(k, ns, es) == [kind |-> k, nodes |-> ns, edges |-> es]
NoneValue == Value("none", <<>>, <<>>)
ZeroValue == Value("zero", <<>>, <<>>)
ObjValue == Value("obj", <<>>, <<>>)
Raised == Value("raised", <<>>, <<>>)
GraphResult(ns, es) == Value("graph", ns, es)

\* Python truth value: a graph result is a dict with two keys
Truthy(v) == v.kind \in {"obj", "graph"}

EmptyStore == [k \in {} |-> NoneValue]

\* CacheEntry.__init__ (ttl None and ttl 0 are both falsy: no expiry)
CacheEntry(v, ttl, t) ==
    [value |-> v, created_at |-> t,
     expires_at |-> IF ttl # 0 THEN t + ttl ELSE NoExpiry]

\* entries that never expire
is_expired_Never(e, t) == FALSE

\* CacheEntry.is_expired
is_expired(e, t) ==
    IF e.expires_at = NoExpiry THEN FALSE ELSE t > e.expires_at

Without(c, k) == [x \in DOMAIN c \ {k} |-> c[x]]

\* MemoryCache.get: the value returned
MemoryCache_get(c, k, t) ==
    IF k \notin DOMAIN c THEN NoneValue
    ELSE IF is_expired(c[k], t) THEN NoneValue
    ELSE c[k].value

\* MemoryCache.get: the map it leaves (an expired entry is deleted)
MemoryCache_get_store(c, k, t) ==
    IF k \in DOMAIN c /\ is_expired(c[k], t) THEN Without(c, k) ELSE c

\* MemoryCache.set
MemoryCache_set(c, k, v, ttl, t) ==
    [x \in DOMAIN c \cup {k} |-> IF x = k THEN CacheEntry(v, ttl, t) ELSE c[x]]

\* CacheManager.get
CacheManager_get(en, c, k, t) ==
    IF ~en THEN NoneValue ELSE MemoryCache_get(c, k, t)

CacheManager_get_store(en, c, k, t) ==
    IF ~en THEN c ELSE MemoryCache_get_store(c, k, t)

\* a manager that writes whether enabled or not
CacheManager_set_Unguarded(en, c, k, v, ttl, t) ==
    MemoryCache_set(c, k, v, IF ttl # 0 THEN ttl ELSE default_ttl, t)

\* CacheManager.set: ttl or self._default_ttl
CacheManager_set(en, c, k, v, ttl, t) ==
    IF en THEN MemoryCache_set(c, k, v, IF ttl # 0 THEN ttl ELSE default_ttl, t)
    ELSE c

\* CacheManager.generate_key: the md5 of the canonical JSON of the prefix
\* and the arguments, modelled by the tuple it is computed from
generate_key(prefix, t, r) == <<prefix, t, r>>

InitCache ==
    /\ cache_store = EmptyStore
    /\ enabled = TRUE
    /\ now = 0
    /\ svc = NoSvc
    /\ calls = 0

\* ------------------------------------------------- _build_graph_recursive
Frame(n, d) == [ent |-> n, depth |-> d, pc |-> "enter", ri |-> 0,
                ids |-> <<>>, ii |-> 0]

Top == stack[Len(stack)]
Below == SubSeq(stack, 1, Len(stack) - 1)

\* a visited-set test that lets everything through
NotVisited_Always(id, vis) == TRUE

\* line 97 / 118 / 152: the visited-set test
NotVisited(id, vis) == id \notin vis

\* a depth test that stops one level late
DepthReached_Late(cur, max) == cur > max

\* line 102: the depth test
DepthReached(cur, max) == cur >= max

Edge(s, t, l) == [source |-> s, target |-> t, relationship |-> l]

\* the frame returns normally to its caller
ReturnFrame ==
    /\ stack' = Below
    /\ status' = IF Len(stack) = 1 THEN "returned" ELSE status

\* an exception leaves the frame: the caller's except clause (line 171)
\* swallows it; with no caller frame it leaves build_graph / expand_node
RaiseFrame ==
    /\ stack' = Below
    /\ status' = IF Len(stack) = 1 THEN "raised" ELSE status

\* next relationship of the for loop at line 110
NextRel(f) == [f EXCEPT !.pc = "rels", !.ri = @ + 1, !.ids = <<>>, !.ii = 0]

\* next related id of the for loop at line 143
NextId(f) == IF f.ii + 1 > Len(f.ids) THEN NextRel(f)
             ELSE [f EXCEPT !.ii = @ + 1]

\* an entity appended to nodes without being recorded as visited
MarkVisited_Skip(vis, id) == vis

\* line 99: visited_entities.add(source_entity.id)
MarkVisited(vis, id) == vis \cup {id}

\* lines 93-108: append the entity, test the depth, read the catalog
Enter ==
    /\ status = "running"
    /\ stack # <<>>
    /\ Top.pc = "enter"
    /\ LET f == Top
           id == EntId(f.ent)
           fresh == NotVisited(id, visited_entities)
       IN  /\ nodes' = IF fresh THEN Append(nodes, EntityNode(f.ent, now)) ELSE nodes
           /\ visited_entities' = IF fresh THEN MarkVisited(visited_entities, id)
                                  ELSE visited_entities
           /\ IF DepthReached(f.depth, max_depth)
              THEN /\ ReturnFrame
                   /\ UNCHANGED expanded
              ELSE /\ stack' = Below \o <<NextRel(f)>>
                   /\ expanded' = expanded \cup {f.ent}
                   /\ UNCHANGED status
    /\ UNCHANGED <<cfgVars, cVars, sVars, call, max_depth, edges, completed,
                   relLog, fetchLog, errLog, fetches>>

CurRels == get_entity_relationships(catalog, TypeOf(Top.ent))

\* line 110 exhausted: the function returns
LoopEnd ==
    /\ status = "running"
    /\ stack # <<>>
    /\ Top.pc = "rels"
    /\ Top.ri > Len(CurRels)
    /\ ReturnFrame
    /\ completed' = completed \cup {Top.ent}
    /\ UNCHANGED <<cfgVars, cVars, sVars, call, max_depth, nodes, edges,
                   visited_entities, expanded, relLog, fetchLog, errLog, fetches>>

\* lines 111-112: a relationship not displayed in the graph
SkipHidden ==
    /\ status = "running"
    /\ stack # <<>>
    /\ Top.pc = "rels"
    /\ Top.ri <= Len(CurRels)
    /\ ~CurRels[Top.ri].display_in_graph
    /\ stack' = Below \o <<NextRel(Top)>>
    /\ UNCHANGED <<cfgVars, cVars, sVars, call, status, max_depth, nodes, edges,
                   visited_entities, hVars>>

\* a test that treats no relationship as expensive
IsExpensive_Never(rel) == FALSE

\* line 115: relationship.get("expensive", False)
IsExpensive(rel) == rel.expensive

\* lines 115-129 with _create_tree_list_node (176-194) and
\* _get_expensive_relationship_count (196-209)
Placeholder ==
    /\ status = "running"
    /\ stack # <<>>
    /\ Top.pc = "rels"
    /\ Top.ri <= Len(CurRels)
    /\ LET f == Top
           rel == CurRels[f.ri]
           sid == EntId(f.ent)
       IN  /\ rel.display_in_graph
           /\ IsExpensive(rel)
           /\ IF \/ "name" \notin rel.fields
                 \/ "target_type" \notin rel.fields
                 \/ ~HasDataProvider(data_providers, TypeOf(f.ent))
              THEN \* KeyError (182, 183) or ValueError (200)
                   /\ RaiseFrame
                   /\ UNCHANGED <<nodes, edges, visited_entities>>
              ELSE \E cnt \in RelatedCounts :
                   LET tn == TreeListNode(sid, rel, cnt, now)
                   IN  IF NotVisited(tn.id, visited_entities)
                       THEN /\ nodes' = Append(nodes, tn)
                            /\ visited_entities' = visited_entities \cup {tn.id}
                            /\ IF "relationship_label" \in rel.fields
                               THEN /\ edges' = Append(edges,
                                          Edge(sid, tn.id, rel.relationship_label))
                                    /\ stack' = Below \o <<NextRel(f)>>
                                    /\ UNCHANGED status
                               ELSE \* KeyError at line 126
                                    /\ RaiseFrame
                                    /\ UNCHANGED edges
                       ELSE /\ stack' = Below \o <<NextRel(f)>>
                            /\ UNCHANGED <<status, nodes, edges, visited_entities>>
    /\ UNCHANGED <<cfgVars, cVars, sVars, call, max_depth, hVars>>

\* history records
RelRec(n, ri, ok, l) == [source |-> n, ri |-> ri, ok |-> ok, ids |-> l]
ErrRec(k, n, ri, ii) == [kind |-> k, source |-> n, ri |-> ri, ii |-> ii]
FetchRec(f, rel, x, ok) ==
    [source |-> f.ent, ri |-> f.ri, ii |-> f.ii, name |-> rel.name,
     label |-> rel.relationship_label, expensive |-> rel.expensive,
     target |-> x, ok |-> ok]

\* what the except clause at line 137 does with the relationship
AfterRelatedError(f) == NextRel(f)

\* lines 131-140: provider lookup and get_related_entity_ids, the provider
\* answering with one of `lists`
GetRelatedFrom(lists) ==
    /\ status = "running"
    /\ stack # <<>>
    /\ Top.pc = "rels"
    /\ Top.ri <= Len(CurRels)
    /\ LET f == Top
           rel == CurRels[f.ri]
       IN  /\ rel.display_in_graph
           /\ ~IsExpensive(rel)
           /\ IF ~HasDataProvider(data_providers, TypeOf(f.ent))
              THEN \* ValueError at line 132, outside the try
                   /\ RaiseFrame
                   /\ UNCHANGED <<relLog, errLog, fetches>>
              ELSE IF "name" \notin rel.fields
              THEN \* KeyError at line 135, inside the try
                   /\ stack' = Below \o <<AfterRelatedError(f)>>
                   /\ UNCHANGED <<status, relLog, errLog, fetches>>
              ELSE \/ \* get_related_entity_ids raises
                      /\ Len(errLog) < MaxErrors
                      /\ errLog' = Append(errLog, ErrRec("related", f.ent, f.ri, 0))
                      /\ relLog' = relLog \cup {RelRec(f.ent, f.ri, FALSE, <<>>)}
                      /\ stack' = Below \o <<AfterRelatedError(f)>>
                      /\ UNCHANGED <<status, fetches>>
                   \/ \* get_related_entity_ids returns a list
                      \E l \in lists :
                      /\ fetches + Len(l) <= MaxFetches
                      /\ fetches' = fetches + Len(l)
                      /\ relLog' = relLog \cup {RelRec(f.ent, f.ri, TRUE, l)}
                      /\ stack' = Below \o
                            <<IF l = <<>> THEN NextRel(f)
                              ELSE [f EXCEPT !.pc = "ids", !.ids = l, !.ii = 1]>>
                      /\ UNCHANGED <<status, errLog>>
    /\ UNCHANGED <<cfgVars, cVars, sVars, call, max_depth, nodes, edges,
                   visited_entities, expanded, completed, fetchLog>>

\* a provider that may answer with any list
GetRelated == GetRelatedFrom(RelatedLists)

\* an except clause that gives up the remaining ids of the relationship
AfterFetchError_Break(f) == NextRel(f)

\* what the except clause at line 171 does with the related id
AfterFetchError(f) == NextId(f)

\* a target followed whether visited or not
FollowTarget_Always(id, vis) == TRUE

\* line 152: the edge and the recursion are guarded by the visited set
FollowTarget(id, vis) == NotVisited(id, vis)

\* lines 143-174 for one related id: _get_related_entity (211-220), the
\* edge, and the recursive call
FetchTarget ==
    /\ status = "running"
    /\ stack # <<>>
    /\ Top.pc = "ids"
    /\ LET f == Top
           rel == CurRels[f.ri]
           x == f.ids[f.ii]
           sid == EntId(f.ent)
       IN  IF \/ "target_type" \notin rel.fields
              \/ ~HasDataProvider(data_providers, rel.target_type)
           THEN \* KeyError (146) or ValueError (219), inside the try
                /\ stack' = Below \o <<AfterFetchError(f)>>
                /\ UNCHANGED <<edges, fetchLog, errLog>>
           ELSE \/ \* get_entity_by_id raises or returns None
                   /\ Len(errLog) < MaxErrors
                   /\ errLog' = Append(errLog, ErrRec("fetch", f.ent, f.ri, f.ii))
                   /\ fetchLog' = fetchLog \cup {FetchRec(f, rel, x, FALSE)}
                   /\ stack' = Below \o <<AfterFetchError(f)>>
                   /\ UNCHANGED edges
                \/ \* the provider has no entity of that type with that
                   \* identifier: get_entity_by_id returns None
                   /\ TypeOf(x) # rel.target_type
                   /\ fetchLog' = fetchLog \cup {FetchRec(f, rel, x, FALSE)}
                   /\ stack' = Below \o <<AfterFetchError(f)>>
                   /\ UNCHANGED <<edges, errLog>>
                \/ \* get_entity_by_id returns the entity
                   /\ TypeOf(x) = rel.target_type
                   /\ fetchLog' = fetchLog \cup {FetchRec(f, rel, x, TRUE)}
                   /\ UNCHANGED errLog
                   /\ IF FollowTarget(EntId(x), visited_entities)
                      THEN IF "relationship_label" \in rel.fields
                           THEN /\ edges' = Append(edges,
                                      Edge(sid, EntId(x), rel.relationship_label))
                                /\ stack' = Below \o
                                      <<NextId(f), Frame(x, f.depth + 1)>>
                           ELSE \* KeyError at line 158, inside the try
                                /\ stack' = Below \o <<AfterFetchError(f)>>
                                /\ UNCHANGED edges
                      ELSE /\ stack' = Below \o <<NextId(f)>>
                           /\ UNCHANGED edges
    /\ UNCHANGED <<cfgVars, cVars, sVars, call, status, max_depth, nodes,
                   visited_entities, expanded, completed, relLog, fetches>>

\* ------------------------------------------ build_graph and expand_node
ResolvedTypes == {None, "Stock", "Listing", "Index"}
FetchOutcomes == {"ok", "none", "raise"}

\* an expansion that starts with nothing visited
ExpandVisited_Empty(r) == {}

\* line 69: visited_entities = {node_entity.id}
ExpandVisited(r) == {EntId(r)}

\* the root pre-seeded in both operations
InitialVisited_Seeded(op, r) == {EntId(r)}

\* line 42 and line 69: the visited set the traversal starts with
InitialVisited(op, r) == IF op = "expand" THEN ExpandVisited(r) ELSE {}

\* build_graph lines 28-51 up to the first call of the recursion
build_graph(r, resolved, fetched) ==
    /\ call' = [op |-> "build", root |-> r]
    /\ max_depth' = max_initial_depth
    /\ nodes' = <<>>
    /\ edges' = <<>>
    /\ expanded' = {}
    /\ completed' = {}
    /\ relLog' = {}
    /\ fetchLog' = {}
    /\ errLog' = <<>>
    /\ fetches' = 0
    /\ IF /\ resolved # None
          /\ HasDataProvider(data_providers, resolved)
          /\ fetched = "ok"
          /\ TypeOf(r) = resolved
       THEN /\ status' = "running"
            /\ visited_entities' = InitialVisited("build", r)
            /\ stack' = <<Frame(r, 0)>>
       ELSE /\ status' = "raised"
            /\ visited_entities' = {}
            /\ stack' = <<>>

\* expand_node lines 60-78 up to the call of the recursion
expand_node(r, ref_data_type, fetched) ==
    /\ call' = [op |-> "expand", root |-> r]
    /\ max_depth' = ExpandDepth
    /\ nodes' = <<>>
    /\ edges' = <<>>
    /\ expanded' = {}
    /\ completed' = {}
    /\ relLog' = {}
    /\ fetchLog' = {}
    /\ errLog' = <<>>
    /\ fetches' = 0
    /\ IF /\ HasDataProvider(data_providers, ref_data_type)
          /\ fetched = "ok"
          /\ TypeOf(r) = ref_data_type
       THEN /\ status' = "running"
            /\ visited_entities' = InitialVisited("expand", r)
            /\ stack' = <<Frame(r, 0)>>
       ELSE /\ status' = "raised"
            /\ visited_entities' = {}
            /\ stack' = <<>>

BuildGraph ==
    /\ status = "idle"
    /\ \E r \in Ids, resolved \in ResolvedTypes, fetched \in FetchOutcomes :
          build_graph(r, resolved, fetched)
    /\ UNCHANGED <<cfgVars, cVars, sVars>>

ExpandNode ==
    /\ status = "idle"
    /\ \E r \in Ids, t \in ResolvedTypes \ {None}, fetched \in FetchOutcomes :
          expand_node(r, t, fetched)
    /\ UNCHANGED <<cfgVars, cVars, sVars>>

Next ==
    \/ BuildGraph
    \/ ExpandNode
    \/ Enter
    \/ LoopEnd
    \/ SkipHidden
    \/ Placeholder
    \/ GetRelated
    \/ FetchTarget

Init ==
    /\ \E d \in Deployments : catalog = d[1] /\ data_providers = d[2]
    /\ InitBuilder
    /\ InitCache

Spec == Init /\ [][Next]_vars

\* one step of the running traversal; the interpreter executes it, and each
\* provider call answers (the provider's dataset is finite)
Traverse ==
    \/ Enter
    \/ LoopEnd
    \/ SkipHidden
    \/ Placeholder
    \/ GetRelated
    \/ FetchTarget

\* the catalogs in which a displayed relationship of a listing leads back
\* to a stock: relationship data can then hold a cycle
CyclicCatalogs ==
    {c \in Catalogs :
        \E k \in DOMAIN c["Listing"] :
            /\ c["Listing"][k].target_type = "Stock"
            /\ c["Listing"][k].display_in_graph
            /\ ~c["Listing"][k].expensive}

InitTermination ==
    /\ catalog \in CyclicCatalogs
    /\ data_providers = AllProviders
    /\ InitBuilder
    /\ InitCache

SpecTermination == InitTermination /\ [][Next]_vars /\ WF_vars(Traverse)

\* ------------------------------------------------------------ GraphService
\* the requests the callers of the service make
RefDataTypes == {"Stock", "Listing"}
ServiceRoots == {1, 2}
\* the service is asked for entities under their own type; a missing entity
\* is the provider's answer (FetchOutcomes)
ServiceRequests == {q \in RefDataTypes \X ServiceRoots : TypeOf(q[2]) = q[1]}
FuncArgs == {1}

ServiceCatalogs ==
    { Catalog(<<HIDDEN_REL, HAS_ISSUER, IS_UNDERLYING_FOR>>, <<>>) }

ClearBuilder ==
    /\ call' = NoCall
    /\ status' = "idle"
    /\ max_depth' = 0
    /\ nodes' = <<>>
    /\ edges' = <<>>
    /\ visited_entities' = {}
    /\ stack' = <<>>
    /\ expanded' = {}
    /\ completed' = {}
    /\ relLog' = {}
    /\ fetchLog' = {}
    /\ errLog' = <<>>
    /\ fetches' = 0

AfterFailure(key) ==
    /\ svc.pc = "done"
    /\ svc.key = key
    /\ svc.en
    /\ ~svc.hit
    /\ svc.ret = Raised

\* `if cached_result:` at graph_service.py lines 28 and 54
ServiceHit(v) == Truthy(v)

\* build_initial_graph lines 21-34: key, cache lookup and, on a miss, the
\* call of GraphBuilder.build_graph
BuildInitialGraph ==
    /\ svc.pc \in {"idle", "done"}
    /\ calls < MaxCalls
    /\ calls' = calls + 1
    /\ \E q \in ServiceRequests :
       LET t == q[1]
           r == q[2]
           key == generate_key("graph_build", t, r)
           cached_result == CacheManager_get(enabled, cache_store, key, now)
           ev == CacheManager_get_store(enabled, cache_store, key, now) # cache_store
       IN  /\ cache_store' = CacheManager_get_store(enabled, cache_store, key, now)
           /\ IF ServiceHit(cached_result)
              THEN /\ svc' = SvcRec("build_initial_graph", key, "done", enabled, TRUE, 0,
                                     GraphBuildTtl, cached_result, AfterFailure(key), ev)
                   /\ UNCHANGED <<bVars, hVars>>
              ELSE /\ svc' = SvcRec("build_initial_graph", key, "compute", enabled, FALSE, 1,
                                     GraphBuildTtl, NoneValue, AfterFailure(key), ev)
                   /\ \E resolved \in {None, t}, fetched \in FetchOutcomes :
                         build_graph(r, resolved, fetched)
    /\ UNCHANGED <<cfgVars, enabled, now>>

\* expand_node lines 47-60
ServiceExpandNode ==
    /\ svc.pc \in {"idle", "done"}
    /\ calls < MaxCalls
    /\ calls' = calls + 1
    /\ \E q \in ServiceRequests :
       LET t == q[1]
           r == q[2]
           key == generate_key("node_expand", t, r)
           cached_result == CacheManager_get(enabled, cache_store, key, now)
           ev == CacheManager_get_store(enabled, cache_store, key, now) # cache_store
       IN  /\ cache_store' = CacheManager_get_store(enabled, cache_store, key, now)
           /\ IF ServiceHit(cached_result)
              THEN /\ svc' = SvcRec("expand_node", key, "done", enabled, TRUE, 0,
                                     NodeExpandTtl, cached_result, AfterFailure(key), ev)
                   /\ UNCHANGED <<bVars, hVars>>
              ELSE /\ svc' = SvcRec("expand_node", key, "compute", enabled, FALSE, 1,
                                     NodeExpandTtl, NoneValue, AfterFailure(key), ev)
                   /\ \E fetched \in FetchOutcomes : expand_node(r, t, fetched)
    /\ UNCHANGED <<cfgVars, enabled, now>>

\* a service that stores whatever the builder left
StoresResult_Always(st) == TRUE

\* whether the service stores what the builder did: only a returned graph
\* reaches cache_manager.set (lines 37 and 63)
StoresResult(st) == st = "returned"

\* build_initial_graph lines 36-41 / expand_node lines 62-65, or the
\* builder's exception passing through the service
ServiceReturn ==
    /\ svc.pc = "compute"
    /\ status \in {"returned", "raised"}
    /\ LET result == GraphResult(nodes, edges)
       IN  IF StoresResult(status)
           THEN /\ cache_store' = CacheManager_set(enabled, cache_store,
                                                   svc.key, result, svc.ttl, now)
                /\ svc' = [svc EXCEPT !.pc = "done", !.ret = result]
           ELSE /\ UNCHANGED cache_store
                /\ svc' = [svc EXCEPT !.pc = "done", !.ret = Raised]
    /\ ClearBuilder
    /\ UNCHANGED <<cfgVars, enabled, now, calls>>

\* ------------------------------------------- CacheManager.cached_method
FuncResults == {NoneValue, ZeroValue, ObjValue, Raised}
DecoratorTtls == {0, NodeExpandTtl}

\* line 79: `if cached_result is not None`
WrapperHit(v) == v # NoneValue

\* line 84: `if result is not None`
WrapperStores(v) == v # NoneValue

\* the wrapper of cached_method, lines 69-87, around a function whose
\* outcome for argument a is `result`
CachedMethodCall ==
    /\ svc.pc \in {"idle", "done"}
    /\ calls < MaxCalls
    /\ calls' = calls + 1
    /\ \E a \in FuncArgs, ttl \in DecoratorTtls, result \in FuncResults :
       LET key == generate_key("module.func", "", a)
           cached_result == CacheManager_get(enabled, cache_store, key, now)
           afterGet == CacheManager_get_store(enabled, cache_store, key, now)
           rec(h, n, v) == SvcRec("cached_method", key, "done", enabled, h, n,
                                  ttl, v, AfterFailure(key),
                                  afterGet # cache_store)
       IN  IF ~enabled
           THEN /\ svc' = rec(FALSE, 1, result)
                /\ UNCHANGED cache_store
           ELSE IF WrapperHit(cached_result)
           THEN /\ svc' = rec(TRUE, 0, cached_result)
                /\ cache_store' = afterGet
           ELSE /\ svc' = rec(FALSE, 1, result)
                /\ cache_store' =
                      IF result # Raised /\ WrapperStores(result)
                      THEN CacheManager_set(enabled, afterGet, key, result, ttl, now)
                      ELSE afterGet
    /\ UNCHANGED <<cfgVars, bVars, hVars, enabled, now>>

\* CacheManager.enable / disable. A service call runs to its end on the
\* IOLoop, so the switch and the clock are observed between calls.
Enable ==
    /\ status = "idle"
    /\ ~enabled
    /\ enabled' = TRUE
    /\ UNCHANGED <<cfgVars, bVars, hVars, cache_store, now, sVars>>

Disable ==
    /\ status = "idle"
    /\ enabled
    /\ enabled' = FALSE
    /\ UNCHANGED <<cfgVars, bVars, hVars, cache_store, now, sVars>>

\* time passes
Tick ==
    /\ status = "idle"
    /\ now + TickStep <= MaxClock
    /\ now' = now + TickStep
    /\ UNCHANGED <<cfgVars, bVars, hVars, cache_store, enabled, sVars>>

InitService ==
    /\ catalog \in ServiceCatalogs
    /\ data_providers = AllProviders
    /\ InitBuilder
    /\ InitCache

NextService ==
    \/ BuildInitialGraph
    \/ ServiceExpandNode
    \/ ServiceReturn
    \/ CachedMethodCall
    \/ Enable
    \/ Disable
    \/ Tick
    \/ Enter
    \/ LoopEnd
    \/ SkipHidden
    \/ Placeholder
    \/ GetRelated
    \/ FetchTarget

SpecService == InitService /\ [][NextService]_vars

\* ------------------------------------------------- REST and GraphQL entry
\* the required fields of a graph-build request body; each is a value,
\* null, or absent
RequiredFields == {"refDataType", "idType", "idValue"}
Bodies == [RequiredFields -> {"value", "null", "absent"}]

\* BaseHandler.validate_required_fields: the fields it reports missing
validate_required_fields(data) ==
    {f \in RequiredFields : data[f] = "absent" \/ data[f] = "null"}

\* a request at an entry point: where it stands and what was answered, and
\* history: touched (graph_service was called), prev / prev_at (the graph
\* answered to the request right before it, when that one came through the
\* same entry point with the same arguments, and when)
ApiRec(entry, key, pc, missing, touched, hit, n, ret, code, body, prev, prev_at, at) ==
    [entry |-> entry, key |-> key, pc |-> pc, missing |-> missing,
     touched |-> touched, hit |-> hit, computes |-> n, ret |-> ret,
     code |-> code, body |-> body, prev |-> prev, prev_at |-> prev_at,
     at |-> at]

NoApi == ApiRec("none", <<>>, "idle", {}, FALSE, FALSE, 0, NoneValue, 0, "none",
                NoneValue, 0, 0)

\* the cache the graph service of the request works on: the REST handlers
\* share the one made in make_app, create_graphql_context makes a new
\* CacheManager(MemoryCache()) for each request
RequestCache(entry) == IF entry = "graphql" THEN EmptyStore ELSE cache_store

\* GraphService.build_initial_graph called for a request that came in
\* through `entry`
ApiBuildGraph(entry, t, r) ==
    LET key == generate_key("graph_build", t, r)
        store == RequestCache(entry)
        cached_result == CacheManager_get(enabled, store, key, now)
        same == /\ svc.pc = "done" /\ svc.entry = entry /\ svc.key = key
                /\ svc.ret.kind = "graph"
        prev == IF same THEN svc.ret ELSE NoneValue
        prev_at == IF same THEN svc.at ELSE 0
    IN  /\ cache_store' = IF entry = "rest"
                          THEN CacheManager_get_store(enabled, cache_store, key, now)
                          ELSE cache_store
        /\ IF ServiceHit(cached_result)
           THEN /\ svc' = ApiRec(entry, key, "done", {}, TRUE, TRUE, 0,
                                 cached_result, 200, "graph", prev, prev_at, now)
                /\ UNCHANGED <<bVars, hVars>>
           ELSE /\ svc' = ApiRec(entry, key, "compute", {}, TRUE, FALSE, 1,
                                 NoneValue, 0, "none", prev, prev_at, 0)
                /\ \E resolved \in {None, t}, fetched \in FetchOutcomes :
                      build_graph(r, resolved, fetched)

\* GraphBuilderHandler.post, lines 36-61: a request lacking a field ends in
\* HTTPError(400), re-raised at line 61 to the framework, which answers
\* with its own error page; otherwise the graph service is called
RestBuildGraph ==
    /\ svc.pc \in {"idle", "done"}
    /\ calls < MaxCalls
    /\ calls' = calls + 1
    /\ \E data \in Bodies, t \in RefDataTypes, r \in ServiceRoots :
          IF validate_required_fields(data) # {}
          THEN /\ svc' = ApiRec("rest", <<>>, "done", validate_required_fields(data),
                                FALSE, FALSE, 0, Raised, 400, "error_page",
                                NoneValue, 0, now)
               /\ UNCHANGED <<bVars, hVars, cache_store>>
          ELSE ApiBuildGraph("rest", t, r)
    /\ UNCHANGED <<cfgVars, enabled, now>>

\* GraphQLHandler.post with create_graphql_context and resolve_build_graph
GraphQLBuildGraph ==
    /\ svc.pc \in {"idle", "done"}
    /\ calls < MaxCalls
    /\ calls' = calls + 1
    /\ \E t \in RefDataTypes, r \in ServiceRoots : ApiBuildGraph("graphql", t, r)
    /\ UNCHANGED <<cfgVars, enabled, now>>

\* the rest of build_initial_graph and of the handler: the graph is stored
\* in the request's cache and written out, or the builder's exception is
\* answered (handlers.py lines 62-65: ValueError 400, any other 500; the
\* GraphQL handler reports it in the errors of the response)
ApiReturn ==
    /\ svc.pc = "compute"
    /\ status \in {"returned", "raised"}
    /\ LET result == GraphResult(nodes, edges)
       IN  IF status = "returned"
           THEN /\ cache_store' =
                      IF svc.entry = "rest"
                      THEN CacheManager_set(enabled, cache_store, svc.key,
                                            result, GraphBuildTtl, now)
                      ELSE cache_store
                /\ svc' = [svc EXCEPT !.pc = "done", !.ret = result, !.code = 200,
                                      !.body = "graph", !.at = now]
           ELSE /\ UNCHANGED cache_store
                /\ svc' = [svc EXCEPT
                      !.pc = "done", !.ret = Raised, !.at = now,
                      !.code = IF svc.entry = "graphql" THEN 200
                               ELSE IF nodes = <<>> THEN 400 ELSE 500,
                      !.body = IF svc.entry = "graphql" THEN "graphql_errors"
                               ELSE "error_json"]
    /\ ClearBuilder
    /\ UNCHANGED <<cfgVars, enabled, now, calls>>

InitApi ==
    /\ catalog \in ServiceCatalogs
    /\ data_providers = AllProviders
    /\ InitBuilder
    /\ cache_store = EmptyStore
    /\ enabled = TRUE
    /\ now = 0
    /\ svc = NoApi
    /\ calls = 0

NextApi ==
    \/ RestBuildGraph
    \/ GraphQLBuildGraph
    \/ ApiReturn
    \/ Tick
    \/ Enter
    \/ LoopEnd
    \/ SkipHidden
    \/ Placeholder
    \/ GetRelated
    \/ FetchTarget

SpecApi == InitApi /\ [][NextApi]_vars

\* ------------------------------------------------------------ MemoryCache
\* a MemoryCache used directly: keys, values and ttl arguments of the
\* callers; a ttl argument is None (given = FALSE) or a number of seconds
CacheKeys == {"k1", "k2"}
CacheValues == {ObjValue, ZeroValue}
TtlArg(given, secs) == [given |-> given, secs |-> secs]
TtlArgs == {TtlArg(FALSE, 0)} \cup {TtlArg(TRUE, n) : n \in {0, TickStep, NodeExpandTtl}}

\* `if ttl:` in CacheEntry.__init__: None and 0 alike give no expiry
TtlOrNone(a) == IF a.given THEN a.secs ELSE 0

\* history: the most recent set of a key and whether a delete or clear
\* followed it
SetRec(live, v, a, t) == [live |-> live, value |-> v, ttl |-> a, at |-> t]
NoSet == SetRec(FALSE, NoneValue, TtlArg(FALSE, 0), 0)

\* the last operation on the cache, when it was made and what it returned,
\* and the history
OpRec(op, k, ret, ex, sets) ==
    [op |-> op, key |-> k, at |-> now, ret |-> ret, exists |-> ex, sets |-> sets]

\* MemoryCache.set, lines 41-45
McSet ==
    /\ \E k \in CacheKeys, v \in CacheValues, a \in TtlArgs :
          /\ cache_store' = MemoryCache_set(cache_store, k, v, TtlOrNone(a), now)
          /\ svc' = OpRec("set", k, NoneValue, FALSE,
                          [svc.sets EXCEPT ![k] = SetRec(TRUE, v, a, now)])
    /\ UNCHANGED <<cfgVars, bVars, hVars, enabled, now, calls>>

\* MemoryCache.get, lines 23-39
McGet ==
    /\ \E k \in CacheKeys :
          /\ cache_store' = MemoryCache_get_store(cache_store, k, now)
          /\ svc' = OpRec("get", k, MemoryCache_get(cache_store, k, now), FALSE,
                          svc.sets)
    /\ UNCHANGED <<cfgVars, bVars, hVars, enabled, now, calls>>

\* MemoryCache.exists, lines 54-56: self.get(key) is not None
McExists ==
    /\ \E k \in CacheKeys :
          /\ cache_store' = MemoryCache_get_store(cache_store, k, now)
          /\ svc' = OpRec("exists", k, NoneValue,
                          MemoryCache_get(cache_store, k, now) # NoneValue,
                          svc.sets)
    /\ UNCHANGED <<cfgVars, bVars, hVars, enabled, now, calls>>

\* MemoryCache.delete, lines 47-52
McDelete ==
    /\ \E k \in CacheKeys :
          /\ cache_store' = IF k \in DOMAIN cache_store THEN Without(cache_store, k)
                            ELSE cache_store
          /\ svc' = OpRec("delete", k, NoneValue, FALSE,
                          [svc.sets EXCEPT ![k].live = FALSE])
    /\ UNCHANGED <<cfgVars, bVars, hVars, enabled, now, calls>>

\* MemoryCache.clear, lines 58-61
McClear ==
    /\ cache_store' = EmptyStore
    /\ svc' = OpRec("clear", "k1", NoneValue, FALSE,
                    [k \in CacheKeys |-> [svc.sets[k] EXCEPT !.live = FALSE]])
    /\ UNCHANGED <<cfgVars, bVars, hVars, enabled, now, calls>>

InitMemoryCache ==
    /\ catalog \in ServiceCatalogs
    /\ data_providers = AllProviders
    /\ InitBuilder
    /\ cache_store = EmptyStore
    /\ enabled = TRUE
    /\ now = 0
    /\ svc = OpRec("none", "k1", NoneValue, FALSE, [k \in CacheKeys |-> NoSet])
    /\ calls = 0

NextMemoryCache ==
    \/ McSet
    \/ McGet
    \/ McExists
    \/ McDelete
    \/ McClear
    \/ Tick

SpecMemoryCache == InitMemoryCache /\ [][NextMemoryCache]_vars


\* ------------------------------------------- GraphService, failing backend
\* GraphService over a CacheInterface implementation whose calls may raise:
\* the step of the call at which the cache fails, if any
Faults == {"none", "key", "get", "set"}

\* whether the failure shows at this step: CacheManager.get and set return
\* before they reach the backend when the cache is disabled (lines 36, 42)
BackendRaises(fault, step, en) == fault = step /\ (step = "key" \/ en)

\* a service call: fault (the failure the cache has in store for it),
\* builder_failed (the builder raised), ret (what the caller got)
FaultRec(op, key, pc, fault, ttl, bf, ret) ==
    [op |-> op, key |-> key, pc |-> pc, fault |-> fault, ttl |-> ttl,
     builder_failed |-> bf, ret |-> ret]

NoFault == FaultRec("none", <<>>, "idle", "none", 0, FALSE, NoneValue)

\* graph_service.py lines 21-34 / 47-60: generate_key and cache_manager.get
\* are called outside any try, so what they raise leaves the method
FaultyLookup(op, prefix, ttl, t, r, fault) ==
    LET key == generate_key(prefix, t, r)
        cached_result == CacheManager_get(enabled, cache_store, key, now)
    IN  IF BackendRaises(fault, "key", enabled) \/ BackendRaises(fault, "get", enabled)
        THEN /\ svc' = FaultRec(op, key, "done", fault, ttl, FALSE, Raised)
             /\ UNCHANGED <<bVars, hVars, cache_store>>
        ELSE /\ cache_store' = CacheManager_get_store(enabled, cache_store, key, now)
             /\ IF ServiceHit(cached_result)
                THEN /\ svc' = FaultRec(op, key, "done", fault, ttl, FALSE,
                                        cached_result)
                     /\ UNCHANGED <<bVars, hVars>>
                ELSE /\ svc' = FaultRec(op, key, "compute", fault, ttl, FALSE,
                                        NoneValue)
                     /\ IF op = "build_initial_graph"
                        THEN \E resolved \in {None, t}, fetched \in FetchOutcomes :
                                build_graph(r, resolved, fetched)
                        ELSE \E fetched \in FetchOutcomes :
                                expand_node(r, t, fetched)

FaultyBuildInitialGraph ==
    /\ svc.pc \in {"idle", "done"}
    /\ calls < MaxCalls
    /\ calls' = calls + 1
    /\ \E q \in ServiceRequests, fault \in Faults :
          FaultyLookup("build_initial_graph", "graph_build", GraphBuildTtl,
                       q[1], q[2], fault)
    /\ UNCHANGED <<cfgVars, enabled, now>>

FaultyExpandNode ==
    /\ svc.pc \in {"idle", "done"}
    /\ calls < MaxCalls
    /\ calls' = calls + 1
    /\ \E q \in ServiceRequests, fault \in Faults :
          FaultyLookup("expand_node", "node_expand", NodeExpandTtl,
                       q[1], q[2], fault)
    /\ UNCHANGED <<cfgVars, enabled, now>>

\* lines 36-41 / 62-65: cache_manager.set is called outside any try, before
\* the return
FaultyReturn ==
    /\ svc.pc = "compute"
    /\ status \in {"returned", "raised"}
    /\ LET result == GraphResult(nodes, edges)
       IN  IF status = "raised"
           THEN /\ svc' = [svc EXCEPT !.pc = "done", !.builder_failed = TRUE,
                                      !.ret = Raised]
                /\ UNCHANGED cache_store
           ELSE IF BackendRaises(svc.fault, "set", enabled)
           THEN /\ svc' = [svc EXCEPT !.pc = "done", !.ret = Raised]
                /\ UNCHANGED cache_store
           ELSE /\ svc' = [svc EXCEPT !.pc = "done", !.ret = result]
                /\ cache_store' = CacheManager_set(enabled, cache_store, svc.key,
                                                   result, svc.ttl, now)
    /\ ClearBuilder
    /\ UNCHANGED <<cfgVars, enabled, now, calls>>

InitCacheFault ==
    /\ catalog \in ServiceCatalogs
    /\ data_providers = AllProviders
    /\ InitBuilder
    /\ cache_store = EmptyStore
    /\ enabled \in BOOLEAN
    /\ now = 0
    /\ svc = NoFault
    /\ calls = 0

NextCacheFault ==
    \/ FaultyBuildInitialGraph
    \/ FaultyExpandNode
    \/ FaultyReturn
    \/ Enter
    \/ LoopEnd
    \/ SkipHidden
    \/ Placeholder
    \/ GetRelated
    \/ FetchTarget

SpecCacheFault == InitCacheFault /\ [][NextCacheFault]_vars


\* ------------------------------------------- concurrent service calls
\* threads calling one GraphService; each call works on its own nodes and
\* edges (locals of build_graph / expand_node) and on the shared MemoryCache
Threads == 1..NumThreads
ConcurrentOps == {"build_initial_graph", "expand_node"}
ConcurrentRoot == CHOOSE r \in ServiceRoots : TypeOf(r) = "Stock"
\* what the provider counts for the root's expensive relationship
ConcurrentRelated == <<ConcurrentRoot>>

OpPrefix(op) == IF op = "build_initial_graph" THEN "graph_build" ELSE "node_expand"
OpTtl(op) == IF op = "build_initial_graph" THEN GraphBuildTtl ELSE NodeExpandTtl

\* the state of the threads: pc, the running call's op and key, its own
\* nodes and edges, got (what its lookup returned), ret (what the call
\* returned), set_at; lock is the owner of MemoryCache._lock (0: free);
\* history: finished (the graphs computations ended with) and stored (what
\* MemoryCache.set was given), as sets of <<key, graph>>; stale (threads
\* whose running call had missed and not yet stored when the cache was
\* cleared) and tainted (keys whose entry such a call wrote)
ThreadsRec(pc, op, key, ns, es, got, ret, set_at, lock, finished, stored) ==
    [pc |-> pc, op |-> op, key |-> key, nodes |-> ns, edges |-> es,
     got |-> got, ret |-> ret, set_at |-> set_at, lock |-> lock,
     finished |-> finished, stored |-> stored, stale |-> {}, tainted |-> {}]

NoThreads ==
    ThreadsRec([t \in Threads |-> "idle"], [t \in Threads |-> "none"],
               [t \in Threads |-> <<>>], [t \in Threads |-> <<>>],
               [t \in Threads |-> <<>>], [t \in Threads |-> NoneValue],
               [t \in Threads |-> NoneValue], [t \in Threads |-> 0], 0, {}, {})

\* a lock anybody may take at any time
LockFree_Always(l) == TRUE

\* threading.RLock as `with self._lock` meets it from another thread
LockFree(l) == l = 0

\* a thread enters build_initial_graph or expand_node: the key is made
\* (graph_service.py lines 21-24, 47-50)
ThreadCall(t) ==
    /\ svc.pc[t] \in {"idle", "done"}
    /\ calls < MaxCalls
    /\ calls' = calls + 1
    /\ \E op \in ConcurrentOps :
          svc' = [svc EXCEPT
                    !.pc[t] = "get_wait", !.op[t] = op,
                    !.key[t] = generate_key(OpPrefix(op), TypeOf(ConcurrentRoot),
                                            ConcurrentRoot),
                    !.nodes[t] = <<>>, !.edges[t] = <<>>,
                    !.got[t] = NoneValue, !.ret[t] = NoneValue, !.set_at[t] = 0,
                    !.stale = @ \ {t}]
    /\ UNCHANGED <<cfgVars, bVars, hVars, cVars>>

\* `with self._lock:` of MemoryCache.get (line 25) and set (line 43)
Acquire(t) ==
    /\ svc.pc[t] \in {"get_wait", "set_wait"}
    /\ LockFree(svc.lock)
    /\ svc' = [svc EXCEPT !.lock = t,
                          !.pc[t] = IF svc.pc[t] = "get_wait" THEN "get_body"
                                    ELSE "set_body"]
    /\ UNCHANGED <<cfgVars, bVars, hVars, cVars, calls>>

\* the body of MemoryCache.get, the lock's release, and `if cached_result:`
GetBody(t) ==
    /\ svc.pc[t] = "get_body"
    /\ LET cached_result == MemoryCache_get(cache_store, svc.key[t], now)
       IN  /\ cache_store' = MemoryCache_get_store(cache_store, svc.key[t], now)
           /\ svc' = [svc EXCEPT
                        !.lock = 0, !.got[t] = cached_result,
                        !.ret[t] = IF ServiceHit(cached_result)
                                   THEN cached_result ELSE NoneValue,
                        !.pc[t] = IF ServiceHit(cached_result) THEN "done"
                                  ELSE "compute_root"]
    /\ UNCHANGED <<cfgVars, bVars, hVars, enabled, now, calls>>

\* the builder's work on the thread's own lists: the root (not for an
\* expansion, whose root is seeded in visited_entities)
ComputeRoot(t) ==
    /\ svc.pc[t] = "compute_root"
    /\ svc' = [svc EXCEPT
                 !.pc[t] = "compute_rels",
                 !.nodes[t] = IF svc.op[t] = "build_initial_graph"
                              THEN <<EntityNode(ConcurrentRoot, now)>> ELSE <<>>]
    /\ UNCHANGED <<cfgVars, bVars, hVars, cVars, calls>>

\* ... and the placeholder of an expensive relationship of the root, after
\* which the computation has its result
ComputeRels(t) ==
    /\ svc.pc[t] = "compute_rels"
    /\ LET cnt == Len(ConcurrentRelated)
           sid == EntId(ConcurrentRoot)
           tn == TreeListNode(sid, IS_UNDERLYING_FOR, cnt, now)
           ns == Append(svc.nodes[t], tn)
           es == <<Edge(sid, tn.id, IS_UNDERLYING_FOR.relationship_label)>>
       IN  svc' = [svc EXCEPT
                     !.pc[t] = "set_wait", !.nodes[t] = ns, !.edges[t] = es,
                     !.finished = @ \cup {<<svc.key[t], GraphResult(ns, es)>>}]
    /\ UNCHANGED <<cfgVars, bVars, hVars, cVars, calls>>

\* the body of MemoryCache.set, the lock's release, and the return of the
\* graph
SetBody(t) ==
    /\ svc.pc[t] = "set_body"
    /\ LET result == GraphResult(svc.nodes[t], svc.edges[t])
       IN  /\ cache_store' = MemoryCache_set(cache_store, svc.key[t], result,
                                             OpTtl(svc.op[t]), now)
           /\ svc' = [svc EXCEPT
                        !.lock = 0, !.pc[t] = "done", !.ret[t] = result,
                        !.set_at[t] = now,
                        !.stored = @ \cup {<<svc.key[t], result>>},
                        !.tainted = IF t \in svc.stale THEN @ \cup {svc.key[t]}
                                    ELSE @ \ {svc.key[t]}]
    /\ UNCHANGED <<cfgVars, bVars, hVars, enabled, now, calls>>

InitConcurrent ==
    /\ catalog \in ServiceCatalogs
    /\ data_providers = AllProviders
    /\ InitBuilder
    /\ cache_store = EmptyStore
    /\ enabled = TRUE
    /\ now = 0
    /\ svc = NoThreads
    /\ calls = 0

NextConcurrent ==
    \/ \E t \in Threads : ThreadCall(t)
    \/ \E t \in Threads : Acquire(t)
    \/ \E t \in Threads : GetBody(t)
    \/ \E t \in Threads : ComputeRoot(t)
    \/ \E t \in Threads : ComputeRels(t)
    \/ \E t \in Threads : SetBody(t)
    \/ Tick

SpecConcurrent == InitConcurrent /\ [][NextConcurrent]_vars


\* ------------------------------------------------------------ TreeService
\* mock_data/all_options.json: options with the fields the service reads;
\* expirationDate 0 stands for a missing date, name for the name's rank in
\* string order
OptionRec(id, us, st, pc, ex, exp, price, size) ==
    [instrumentId |-> id, underlyings |-> us, status |-> st, putOrCall |-> pc,
     exerciseStyle |-> ex, expirationDate |-> exp, strike_price |-> price,
     contractSize |-> size, name |-> (id * 2) % 5]

OptionPool ==
    { OptionRec(1, {1}, "ACTIVE", "CALL", "AMERICAN", 2, 10, 100),
      OptionRec(2, {1}, "ACTIVE", "PUT", "EUROPEAN", 1, 10, 10),
      OptionRec(3, {1, 2}, "INACTIVE", "CALL", "AMERICAN", 0, 5, 100) }

\* the contents of the file, in any order
OptionFiles ==
    {f \in UNION {[1..n -> OptionPool] : n \in 0..MaxOptions} :
        \A i, j \in DOMAIN f : i # j => f[i] # f[j]}

\* the arguments of build_tree_list: sourceEntityId (0: not given), filters
\* (None: the field is not in the dict), sort_by (None, or field and what
\* follows the colon), page and page size
SourceIds == {0, 1, 2}
DateRange(from, to) == [from |-> from, to |-> to]
FilterDicts ==
    [status : {None, "ACTIVE"}, putOrCall : {None, "CALL"},
     exerciseStyle : {None, "AMERICAN"},
     expirationDate : {DateRange(0, 0), DateRange(1, 1), DateRange(2, 0)}]
SortFields == {"expirationDate", "strike_price", "instrumentId", "name",
               "contractSize"}
NoSort == [field |-> None, direction |-> ""]
SortBys == {NoSort} \cup [field : SortFields, direction : {"", "desc"}]
Pages == 1..MaxPage
PageSizes == 1..MaxPageSize

\* _transform_option_to_row, lines 146-159
transform_option_to_row(o) ==
    [instrumentId |-> o.instrumentId, name |-> o.name, status |-> o.status,
     putOrCall |-> o.putOrCall, exerciseStyle |-> o.exerciseStyle,
     expirationDate |-> o.expirationDate, strike_price |-> o.strike_price,
     contractSize |-> o.contractSize]

\* _date_in_range, lines 227-248
date_in_range(d, from, to) ==
    /\ d # 0
    /\ from # 0 => d >= from
    /\ to # 0 => d <= to

\* _apply_filters, lines 178-198: status, putOrCall and expirationDate are
\* the fields it knows; any other key of the dict is passed over
apply_filters(options, filters) ==
    LET keep(o) ==
          /\ filters.status # None => o.status = filters.status
          /\ filters.putOrCall # None => o.putOrCall = filters.putOrCall
          /\ (filters.expirationDate.from # 0 \/ filters.expirationDate.to # 0)
                => date_in_range(o.expirationDate, filters.expirationDate.from,
                                 filters.expirationDate.to)
    IN  SelectSeq(options, keep)

\* the key functions of _apply_sorting
SortKey(o, field) ==
    CASE field = "expirationDate" -> o.expirationDate
      [] field = "strike_price" -> o.strike_price
      [] field = "instrumentId" -> o.instrumentId
      [] field = "name" -> o.name
      [] OTHER -> 0

\* sorted(options, key=..., reverse=...): stable in both directions
RECURSIVE sorted(_, _, _)
sorted(options, field, reverse) ==
    IF options = <<>> THEN <<>>
    ELSE LET n == Len(options)
             init == sorted(SubSeq(options, 1, n - 1), field, reverse)
             x == options[n]
             k == Cardinality({i \in DOMAIN init :
                     IF reverse THEN SortKey(init[i], field) >= SortKey(x, field)
                     ELSE SortKey(init[i], field) <= SortKey(x, field)})
         IN  SubSeq(init, 1, k) \o <<x>> \o SubSeq(init, k + 1, n - 1)

SortedFields == {"expirationDate", "strike_price", "instrumentId", "name"}

\* _apply_sorting, lines 200-225
apply_sorting(options, sort_by) ==
    IF sort_by.field \in SortedFields
    THEN sorted(options, sort_by.field, sort_by.direction = "desc")
    ELSE options

\* a page as the service answers it; listed is the list the page was cut
\* from
TreePage(data, page, size, items, pages, next, prev, listed) ==
    [data |-> data, page |-> page, size |-> size, total_items |-> items,
     total_pages |-> pages, has_next |-> next, has_previous |-> prev,
     listed |-> listed]

\* _empty_tree_response, lines 250-261
empty_tree_response(page, page_size) ==
    TreePage(<<>>, page, page_size, 0, 0, FALSE, FALSE, <<>>)

\* a page count that drops the last, partial page
TotalPages_Floor(total_items, page_size) ==
    IF page_size > 0 THEN total_items \div page_size ELSE 0

\* line 96
TotalPages(total_items, page_size) ==
    IF page_size > 0 THEN (total_items + page_size - 1) \div page_size ELSE 0

\* a slice bound as Python reads it on a list of n items: counted from the
\* end when negative, and clipped to 0..n
PyIndex(i, n) ==
    IF i < 0 THEN (IF i + n < 0 THEN 0 ELSE i + n)
    ELSE (IF i > n THEN n ELSE i)

\* filtered_options[start_idx:end_idx]
Slice(l, start, end) ==
    LET s == PyIndex(start, Len(l))
        e == PyIndex(end, Len(l))
    IN  [i \in 1..(e - s) |-> l[s + i]]

\* _build_options_tree_list, lines 61-120
build_options_tree_list(file, source, page, page_size, filters, sort_by) ==
    IF source = 0 THEN empty_tree_response(page, page_size)
    ELSE LET ofSource(o) == source \in o.underlyings
             byUnderlying == SelectSeq(file, ofSource)
             filtered == apply_filters(byUnderlying, filters)
             ordered == IF sort_by # NoSort THEN apply_sorting(filtered, sort_by)
                        ELSE filtered
             total_items == Len(ordered)
             total_pages == TotalPages(total_items, page_size)
             start_idx == (page - 1) * page_size
             page_options == Slice(ordered, start_idx, start_idx + page_size)
             rows(l) == [i \in DOMAIN l |-> transform_option_to_row(l[i])]
         IN  TreePage(rows(page_options), page, page_size, total_items,
                      total_pages, page < total_pages, page > 1, rows(ordered))

\* a call of build_tree_list for Option / underlyingInstrumentId and its
\* answer
TreeRec(pc, file, source, page, size, filters, sort_by, out) ==
    [pc |-> pc, file |-> file, source |-> source, page |-> page, size |-> size,
     filters |-> filters, sort_by |-> sort_by, out |-> out]

\* build_tree_list, lines 43-52
BuildTreeList ==
    /\ svc.pc = "request"
    /\ svc' = [svc EXCEPT
                 !.pc = "done",
                 !.out = build_options_tree_list(svc.file, svc.source, svc.page,
                                                 svc.size, svc.filters,
                                                 svc.sort_by)]
    /\ UNCHANGED <<cfgVars, bVars, hVars, cVars, calls>>

InitTreeList ==
    /\ catalog \in ServiceCatalogs
    /\ data_providers = AllProviders
    /\ InitBuilder
    /\ cache_store = EmptyStore
    /\ enabled = TRUE
    /\ now = 0
    /\ calls = 0
    /\ \E file \in OptionFiles, source \in SourceIds, page \in Pages,
          size \in PageSizes, filters \in FilterDicts, sort_by \in SortBys :
          svc = TreeRec("request", file, source, page, size, filters, sort_by,
                        empty_tree_response(page, size))

NextTreeList == BuildTreeList

SpecTreeList == InitTreeList /\ [][NextTreeList]_vars

\* TreeBuilderHandler.post, lines 176-177: page and size are taken from the
\* request body as they come, negative numbers and zero included
AnyPages == (0 - MaxPage)..(MaxPage + 1)
AnyPageSizes == (0 - MaxPageSize)..MaxPageSize
NoFilters == [status |-> None, putOrCall |-> None, exerciseStyle |-> None,
              expirationDate |-> DateRange(0, 0)]

InitTreePaging ==
    /\ catalog \in ServiceCatalogs
    /\ data_providers = AllProviders
    /\ InitBuilder
    /\ cache_store = EmptyStore
    /\ enabled = TRUE
    /\ now = 0
    /\ calls = 0
    /\ \E file \in OptionFiles, source \in SourceIds, page \in AnyPages,
          size \in AnyPageSizes :
          svc = TreeRec("request", file, source, page, size, NoFilters, NoSort,
                        empty_tree_response(page, size))

SpecTreePaging == InitTreePaging /\ [][NextTreeList]_vars


\* ---------------------------------------------------------- to_node_dict
\* entity data: the set of fields it holds (each with some value), per
\* entity type the fields to_node_dict reads
EntityTypes == {"Stock", "Option", "TreeListNode"}

Line(field, key) == [field |-> field, key |-> key]

\* the entries of "additionalLines": data field and the key it is shown as
AdditionalLines(type) ==
    CASE type = "Stock" ->
            { Line("instrumentId", "Instrument Id"), Line("isin", "ISIN"),
              Line("primaryTradingLine", "Primary Trading Line"),
              Line("sector", "Sector") }
      [] type = "Option" ->
            { Line("instrumentId", "Instrument Id"),
              Line("optionType", "Option Type"), Line("strike", "Strike"),
              Line("expirationDate", "Expiration Date"),
              Line("underlyingInstrumentId", "Underlying") }
      [] OTHER -> { Line("totalCount", "Total Count") }

\* the entries of "idValue" that come from the data
IdValueLines(type) ==
    IF type = "TreeListNode"
    THEN { Line("sourceEntityId", "sourceEntityId"),
           Line("relationshipName", "relationshipName") }
    ELSE {}

TitleFields(type) ==
    IF type = "TreeListNode" THEN {"titleLine1", "titleLine2", "status"}
    ELSE {"instrument_type", "name", "status"}

DataFields(type) ==
    {l.field : l \in AdditionalLines(type) \cup IdValueLines(type)}
        \cup TitleFields(type)

\* self.data.get(field): the value, or None; str(self.data.get(field, 0))
\* for the count of a TreeListNode
Shown(lines, data, type) ==
    [k \in {l.key : l \in lines} |->
        LET f == (CHOOSE l \in lines : l.key = k).field
        IN  IF f \in data THEN "value"
            ELSE IF type = "TreeListNode" /\ f = "totalCount" THEN "0"
            ELSE None]

\* to_node_dict of Stock (lines 40-56), Option (77-94), TreeListNode
\* (265-282): every key is written whatever the data holds
to_node_dict(type, data) ==
    [additionalLines |-> Shown(AdditionalLines(type), data, type),
     idValue |-> Shown(IdValueLines(type), data, type),
     refDataType |-> type]

RenderRec(pc, type, data, out) ==
    [pc |-> pc, type |-> type, data |-> data, out |-> out]

Render ==
    /\ svc.pc = "request"
    /\ svc' = [svc EXCEPT !.pc = "done",
                          !.out = to_node_dict(svc.type, svc.data)]
    /\ UNCHANGED <<cfgVars, bVars, hVars, cVars, calls>>

InitRender ==
    /\ catalog \in ServiceCatalogs
    /\ data_providers = AllProviders
    /\ InitBuilder
    /\ cache_store = EmptyStore
    /\ enabled = TRUE
    /\ now = 0
    /\ calls = 0
    /\ \E type \in EntityTypes : \E data \in SUBSET DataFields(type) :
          svc = RenderRec("request", type, data, to_node_dict(type, {}))

NextRender == Render

SpecRender == InitRender /\ [][NextRender]_vars


\* ------------------------------------------- CacheManager.generate_key
\* Python values handed to generate_key: strings, ints, datetimes, lists,
\* tuples and dicts (items in insertion order); v is the text of an atom,
\* items the members of a container
Py(t, v, items) == [t |-> t, v |-> v, items |-> items]
PyStr(v) == Py("str", v, <<>>)
PyInt(v) == Py("int", v, <<>>)
PyDatetime(v) == Py("datetime", v, <<>>)
PyList(items) == Py("list", "", items)
PyTuple(items) == Py("tuple", "", items)
PyDict(items) == Py("dict", "", items)

PyAtoms == {PyStr("a"), PyStr("1"), PyInt("1"), PyDatetime("2024-01-01 00:00:00"),
            PyStr("2024-01-01 00:00:00")}
PyContainers ==
    { PyList(<<PyInt("1"), PyStr("a")>>), PyTuple(<<PyInt("1"), PyStr("a")>>),
      PyDict(<< <<PyStr("x"), PyInt("1")>>, <<PyStr("y"), PyStr("a")>> >>),
      PyDict(<< <<PyStr("y"), PyStr("a")>>, <<PyStr("x"), PyInt("1")>> >>),
      PyDict(<< <<PyInt("1"), PyStr("a")>> >>),
      PyDict(<< <<PyStr("1"), PyStr("a")>> >>) }
PyValues == PyAtoms \cup PyContainers

\* the calls: prefix, positional arguments, keyword arguments in the order
\* they were written
KeyPrefixes == {"graph_build", "node_expand"}
ArgLists == {<<>>} \cup {<<v>> : v \in PyValues}
DatetimeArgs == {PyStr("a"), PyDatetime("2024-01-01 00:00:00"),
                 PyStr("2024-01-01 00:00:00")}
KwargLists ==
    {<<>>, << <<"source", PyStr("a")>> >>}
    \cup {<< <<"effective_datetime", v>> >> : v \in DatetimeArgs}
    \cup {<< <<"source", PyStr("a")>>, <<"effective_datetime", v>> >> :
             v \in DatetimeArgs}
    \cup {<< <<"effective_datetime", v>>, <<"source", PyStr("a")>> >> :
             v \in DatetimeArgs}
KeyCalls == [prefix : KeyPrefixes, args : ArgLists, kwargs : KwargLists]

\* string order of the names and keys that occur
StringOrder == <<"1", "args", "effective_datetime", "kwargs", "prefix", "source",
                 "x", "y">>

\* sorted(pairs) / sort_keys=True: the pairs in the string order of their
\* first components (p[1], a string)
SortByKey(pairs) ==
    LET present(k) == \E i \in DOMAIN pairs : pairs[i][1] = k
        keys == SelectSeq(StringOrder, present)
    IN  [i \in DOMAIN keys |->
            pairs[CHOOSE j \in DOMAIN pairs : pairs[j][1] = keys[i]]]

\* JSON text, as its tokens
JsonString(v) == <<"\"", v, "\"">>

RECURSIVE Flatten(_)
Flatten(ss) == IF ss = <<>> THEN <<>> ELSE ss[1] \o Flatten(Tail(ss))

\* a dict key as json.dumps writes it: strings as they are, ints as text
JsonKey(k) == k.v

\* json.dumps(value, sort_keys=True, default=str)
RECURSIVE Dumps(_)
Dumps(x) ==
    CASE x.t = "str" -> JsonString(x.v)
      [] x.t = "int" -> <<x.v>>
      [] x.t = "datetime" -> JsonString(x.v)
      [] x.t \in {"list", "tuple"} ->
            <<"[">> \o Flatten([i \in DOMAIN x.items |-> Dumps(x.items[i]) \o <<",">>])
                    \o <<"]">>
      [] OTHER ->
            LET members == SortByKey([i \in DOMAIN x.items |->
                                         <<JsonKey(x.items[i][1]), x.items[i][2]>>])
            IN  <<"{">> \o Flatten([i \in DOMAIN members |->
                               JsonString(members[i][1]) \o <<":">>
                                  \o Dumps(members[i][2]) \o <<",">>])
                        \o <<"}">>

\* hashlib.md5(...).hexdigest(): no two texts of the model collide
Md5(text) == <<"md5", text>>

\* generate_key, lines 54-63, on a call
GenerateKey(c) ==
    LET kwargs == SortByKey(c.kwargs)
        key_data ==
           PyDict(<< <<PyStr("prefix"), PyStr(c.prefix)>>,
                     <<PyStr("args"), PyTuple(c.args)>>,
                     <<PyStr("kwargs"),
                       PyList([i \in DOMAIN kwargs |->
                                 PyTuple(<<PyStr(kwargs[i][1]), kwargs[i][2]>>)])>> >>)
    IN  <<c.prefix, Md5(Dumps(key_data))>>

\* two calls and the keys made for them
KeyRec(pc, c1, c2, k1, k2) ==
    [pc |-> pc, c1 |-> c1, c2 |-> c2, k1 |-> k1, k2 |-> k2]

GenerateKeys ==
    /\ svc.pc = "request"
    /\ svc' = [svc EXCEPT !.pc = "done", !.k1 = GenerateKey(svc.c1),
                          !.k2 = GenerateKey(svc.c2)]
    /\ UNCHANGED <<cfgVars, bVars, hVars, cVars, calls>>

InitKeys ==
    /\ catalog \in ServiceCatalogs
    /\ data_providers = AllProviders
    /\ InitBuilder
    /\ cache_store = EmptyStore
    /\ enabled = TRUE
    /\ now = 0
    /\ calls = 0
    /\ \E c1, c2 \in KeyCalls : svc = KeyRec("request", c1, c2, <<>>, <<>>)

NextKeys == GenerateKeys

SpecKeys == InitKeys /\ [][NextKeys]_vars


\* ----------------------------------------------------------- CacheManager
\* CacheManager.delete, lines 45-48
CacheManager_delete(en, c, k) ==
    IF en /\ k \in DOMAIN c THEN Without(c, k) ELSE c

\* the ttl arguments of the manager's callers
ManagerTtlArgs == {TtlArg(FALSE, 0), TtlArg(TRUE, TickStep)}

\* the last operation on the manager: en (enabled when it ran), ret; and
\* history per key: sets (the most recent set made while enabled, live
\* until a delete made while enabled or a clear), ignored (the value of a
\* set made while disabled since then)
CmRec(op, k, en, ret, sets, ignored) ==
    [op |-> op, key |-> k, en |-> en, at |-> now, ret |-> ret, sets |-> sets,
     ignored |-> ignored]

\* CacheManager.set, lines 40-43
CmSet ==
    /\ \E k \in CacheKeys, v \in CacheValues, a \in ManagerTtlArgs :
          /\ cache_store' = CacheManager_set(enabled, cache_store, k, v,
                                             TtlOrNone(a), now)
          /\ svc' = IF enabled
                    THEN CmRec("set", k, enabled, NoneValue,
                               [svc.sets EXCEPT ![k] = SetRec(TRUE, v, a, now)],
                               [svc.ignored EXCEPT ![k] = NoneValue])
                    ELSE CmRec("set", k, enabled, NoneValue, svc.sets,
                               [svc.ignored EXCEPT ![k] = v])
    /\ UNCHANGED <<cfgVars, bVars, hVars, enabled, now, calls>>

\* CacheManager.get, lines 34-38
CmGet ==
    /\ \E k \in CacheKeys :
          /\ cache_store' = CacheManager_get_store(enabled, cache_store, k, now)
          /\ svc' = CmRec("get", k, enabled,
                          CacheManager_get(enabled, cache_store, k, now),
                          svc.sets, svc.ignored)
    /\ UNCHANGED <<cfgVars, bVars, hVars, enabled, now, calls>>

\* CacheManager.delete
CmDelete ==
    /\ \E k \in CacheKeys :
          /\ cache_store' = CacheManager_delete(enabled, cache_store, k)
          /\ svc' = CmRec("delete", k, enabled, NoneValue,
                          IF enabled THEN [svc.sets EXCEPT ![k].live = FALSE]
                          ELSE svc.sets,
                          svc.ignored)
    /\ UNCHANGED <<cfgVars, bVars, hVars, enabled, now, calls>>

\* CacheManager.clear, lines 50-52: not guarded by the switch
CmClear ==
    /\ cache_store' = EmptyStore
    /\ svc' = CmRec("clear", "k1", enabled, NoneValue,
                    [k \in CacheKeys |-> [svc.sets[k] EXCEPT !.live = FALSE]],
                    svc.ignored)
    /\ UNCHANGED <<cfgVars, bVars, hVars, enabled, now, calls>>

InitCacheManager ==
    /\ catalog \in ServiceCatalogs
    /\ data_providers = AllProviders
    /\ InitBuilder
    /\ cache_store = EmptyStore
    /\ enabled = TRUE
    /\ now = 0
    /\ svc = CmRec("none", "k1", TRUE, NoneValue, [k \in CacheKeys |-> NoSet],
                   [k \in CacheKeys |-> NoneValue])
    /\ calls = 0

NextCacheManager ==
    \/ CmSet
    \/ CmGet
    \/ CmDelete
    \/ CmClear
    \/ Enable
    \/ Disable
    \/ Tick

SpecCacheManager == InitCacheManager /\ [][NextCacheManager]_vars


\* ------------------------------------------------ GraphQL buildGraph query
\* BuildGraphInput.max_depth, graphene.Int(default_value=2): the depths a
\* caller asks for
RequestedDepths == {1, 2, 3}

GraphQLCatalogs ==
    { Catalog(<<HIDDEN_REL, HAS_LISTING, IS_UNDERLYING_FOR>>, <<LISTING_OF>>) }

\* GraphMetadata of query_resolver.py lines 104-109
GraphMetadata(ns, es, depth) ==
    [node_count |-> Len(ns), edge_count |-> Len(es), max_depth |-> depth]

\* a buildGraph query: the input, where it stands, and the GraphResult it
\* answered; history: applied (the max_depth argument the traversal ran
\* with)
GqlRec(pc, root, requested, applied, ret, metadata) ==
    [pc |-> pc, root |-> root, requested |-> requested, applied |-> applied,
     ret |-> ret, metadata |-> metadata]

NoGql == GqlRec("idle", 0, 0, 0, NoneValue, GraphMetadata(<<>>, <<>>, 0))

\* resolve_build_graph lines 65-89: the call of build_initial_graph, which
\* passes ref_data_type, id_type, id_value and the kwargs source and
\* effective_datetime; the cache of the request's context is new and empty
ResolveBuildGraph ==
    /\ svc.pc \in {"idle", "done"}
    /\ status = "idle"
    /\ calls < MaxCalls
    /\ calls' = calls + 1
    /\ \E m \in RequestedDepths, q \in ServiceRequests, fetched \in FetchOutcomes :
       \E resolved \in {None, q[1]} :
          /\ svc' = GqlRec("compute", q[2], m, 0, NoneValue,
                           GraphMetadata(<<>>, <<>>, 0))
          /\ build_graph(q[2], resolved, fetched)
    /\ UNCHANGED <<cfgVars, cVars>>

\* resolve_build_graph lines 91-111: nodes, edges and metadata of the
\* result; an exception of the builder ends the query in the errors list
ResolveReturn ==
    /\ svc.pc = "compute"
    /\ status \in {"returned", "raised"}
    /\ svc' = IF status = "returned"
              THEN GqlRec("done", svc.root, svc.requested, max_depth,
                          GraphResult(nodes, edges),
                          GraphMetadata(nodes, edges, svc.requested))
              ELSE GqlRec("done", svc.root, svc.requested, max_depth, Raised,
                          GraphMetadata(<<>>, <<>>, 0))
    /\ ClearBuilder
    /\ UNCHANGED <<cfgVars, cVars, calls>>

InitGraphQL ==
    /\ catalog \in GraphQLCatalogs
    /\ data_providers = AllProviders
    /\ InitBuilder
    /\ cache_store = EmptyStore
    /\ enabled = TRUE
    /\ now = 0
    /\ svc = NoGql
    /\ calls = 0

NextGraphQL ==
    \/ ResolveBuildGraph
    \/ ResolveReturn
    \/ Tick
    \/ Enter
    \/ LoopEnd
    \/ SkipHidden
    \/ Placeholder
    \/ GetRelated
    \/ FetchTarget

SpecGraphQL == InitGraphQL /\ [][NextGraphQL]_vars

\* ------------------------------------------------------ cache invalidation
\* a pattern is the sequence of its pieces, the empty string the empty
\* sequence; `if pattern:` at cache_manager.py line 95
PatternGiven(pattern) == pattern # <<>>

\* graph_service.py line 69: f"*:{entity_type}:*:{entity_id}:*"
NodePattern(entity_type, entity_id) == <<"*:", entity_type, ":*:", entity_id, ":*">>

\* patterns a caller of invalidate_pattern passes
Patterns == {<<>>, <<"*">>, <<"graph_build:*">>}

\* an invalidation that leaves the cache as it is
invalidate_pattern_store_Keep(c, pattern) == c

\* CacheManager.invalidate_pattern, lines 91-98: the cache it leaves
invalidate_pattern_store(c, pattern) ==
    IF PatternGiven(pattern) THEN EmptyStore ELSE c

\* CacheManager.invalidate_pattern: the number it returns
invalidate_pattern(pattern) == IF PatternGiven(pattern) THEN 1 ELSE 0

\* a finished invalidation as the last service operation: the pattern, what
\* it returned, and history: before (the cache it found)
InvRec(op, pattern, removed, before) ==
    [op |-> op, key |-> <<>>, pc |-> "done", en |-> enabled, hit |-> FALSE,
     computes |-> 0, ttl |-> 0, ret |-> NoneValue, after_failure |-> FALSE,
     evicted |-> FALSE, pattern |-> pattern, removed |-> removed,
     before |-> before]

\* CacheManager.invalidate_pattern called between requests
InvalidatePattern ==
    /\ svc.pc \in {"idle", "done"}
    /\ \E pattern \in Patterns :
          /\ cache_store' = invalidate_pattern_store(cache_store, pattern)
          /\ svc' = InvRec("invalidate_pattern", pattern,
                           invalidate_pattern(pattern), cache_store)
    /\ UNCHANGED <<cfgVars, bVars, hVars, enabled, now, calls>>

\* GraphService.invalidate_node_cache, lines 67-69; the number
\* invalidate_pattern returns is dropped
InvalidateNodeCache ==
    /\ svc.pc \in {"idle", "done"}
    /\ \E entity_type \in RefDataTypes, entity_id \in {"1", "2"} :
          LET pattern == NodePattern(entity_type, entity_id)
          IN  /\ cache_store' = invalidate_pattern_store(cache_store, pattern)
              /\ svc' = InvRec("invalidate_node_cache", pattern,
                               invalidate_pattern(pattern), cache_store)
    /\ UNCHANGED <<cfgVars, bVars, hVars, enabled, now, calls>>

NextInvalidate ==
    \/ BuildInitialGraph
    \/ ServiceExpandNode
    \/ ServiceReturn
    \/ InvalidatePattern
    \/ InvalidateNodeCache
    \/ Enable
    \/ Disable
    \/ Tick
    \/ Enter
    \/ LoopEnd
    \/ SkipHidden
    \/ Placeholder
    \/ GetRelated
    \/ FetchTarget

SpecInvalidate == InitService /\ [][NextInvalidate]_vars

\* ------------------------------------------- traversal of a fixed dataset
\* a relationship between entities of one type (relationships.yaml is read
\* at start-up and may declare any)
HAS_PEER == Rel("HAS_PEER", "Stock", "PEER", FALSE, TRUE, AllFields)

\* the same relationships in both orders
PeerCatalogs ==
    { Catalog(<<HIDDEN_REL, HAS_LISTING, HAS_PEER>>, <<LISTING_OF, HAS_TRADES>>),
      Catalog(<<HIDDEN_REL, HAS_PEER, HAS_LISTING>>, <<LISTING_OF, HAS_TRADES>>) }

DataIds == 1..(NumIds + 1)
IdsOfType(type) == {n \in DataIds : TypeOf(n) = type}

\* what get_related_entity_ids of a provider holds for one relationship:
\* no id or one id of the target type
AnswersOf(type) == {<<>>} \cup {<<a>> : a \in IdsOfType(type)}

\* the providers' data: for each entity and relationship name the related
\* ids
Datasets ==
    {[n \in DataIds |-> IF TypeOf(n) = "Stock" THEN s[n] ELSE l[n]] :
        s \in [IdsOfType("Stock") ->
                  [HAS_LISTING : AnswersOf("Listing"), HAS_PEER : AnswersOf("Stock")]],
        l \in [IdsOfType("Listing") -> [LISTING_OF : AnswersOf("Stock")]]}

DataRec(data) == [pc |-> "idle", data |-> data]

\* build_graph on an entity the provider holds
DataBuildGraph ==
    /\ status = "idle"
    /\ \E r \in DataIds : build_graph(r, TypeOf(r), "ok")
    /\ UNCHANGED <<cfgVars, cVars, sVars>>

\* get_related_entity_ids answered from the data, without error
DataGetRelated ==
    /\ GetRelatedFrom({svc.data[Top.ent][CurRels[Top.ri].name]})
    /\ errLog' = errLog

\* get_entity_by_id answered from the data, without error
DataFetchTarget ==
    /\ FetchTarget
    /\ errLog' = errLog

InitDataset ==
    /\ catalog \in PeerCatalogs
    /\ data_providers = AllProviders
    /\ InitBuilder
    /\ cache_store = EmptyStore
    /\ enabled = TRUE
    /\ now = 0
    /\ svc \in {DataRec(d) : d \in Datasets}
    /\ calls = 0

NextDataset ==
    \/ DataBuildGraph
    \/ Enter
    \/ LoopEnd
    \/ SkipHidden
    \/ Placeholder
    \/ DataGetRelated
    \/ DataFetchTarget

SpecDataset == InitDataset /\ [][NextDataset]_vars

\* ------------------------------------- invalidation under concurrent calls
\* the thread's call missed the cache and has not stored its graph yet
InFlight(t) == svc.pc[t] \in {"compute_root", "compute_rels", "set_wait"}

\* GraphService.invalidate_node_cache on another thread: invalidate_pattern,
\* CacheManager.clear, and MemoryCache.clear under the lock (lines 58-61)
ConcurrentInvalidate ==
    /\ LockFree(svc.lock)
    /\ cache_store' =
          invalidate_pattern_store(cache_store,
                                   NodePattern(TypeOf(ConcurrentRoot), "1"))
    /\ svc' = [svc EXCEPT !.stale = @ \cup {t \in Threads : InFlight(t)},
                          !.tainted = {}]
    /\ UNCHANGED <<cfgVars, bVars, hVars, enabled, now, calls>>

NextConcurrentInvalidate ==
    \/ \E t \in Threads : ThreadCall(t)
    \/ \E t \in Threads : Acquire(t)
    \/ \E t \in Threads : GetBody(t)
    \/ \E t \in Threads : ComputeRoot(t)
    \/ \E t \in Threads : ComputeRels(t)
    \/ \E t \in Threads : SetBody(t)
    \/ ConcurrentInvalidate
    \/ Tick

SpecConcurrentInvalidate == InitConcurrent /\ [][NextConcurrentInvalidate]_vars

\* ================================================================ claims
NodeIds == {nodes[i].id : i \in DOMAIN nodes}
EdgeSet == {edges[i] : i \in DOMAIN edges}
RootId == EntId(call.root)
Returned(op) == status = "returned" /\ call.op = op

\* C1: the nodes list never holds two entries with the same id, and the
\* visited set holds the id of every entry of nodes, in every state of a
\* build_graph or expand_node traversal and in every result.
C1_NodeUniqueness ==
    /\ \A i, j \in DOMAIN nodes : nodes[i].id = nodes[j].id => i = j
    /\ \A i \in DOMAIN nodes : nodes[i].id \in visited_entities

\* a result of a traversal in which one relationship returned the same id
\* twice and a relationship of that entity led back to the root
C1_Witness ==
    /\ status = "returned"
    /\ Len(nodes) >= 2
    /\ \E a, b \in fetchLog :
          /\ a.ok /\ b.ok /\ a.target = b.target
          /\ a.source = b.source /\ a.ri = b.ri /\ a.ii # b.ii
    /\ \E c \in fetchLog :
          c.ok /\ c.target = call.root /\ c.source # call.root

\* C2: in every result of build_graph every edge's source and target is the
\* id of an entry of nodes.
C2_EdgeIntegrity ==
    Returned("build") =>
        \A e \in EdgeSet : e.source \in NodeIds /\ e.target \in NodeIds

\* a build_graph result with an edge into an entity during whose expansion
\* a provider call failed
C2_Witness ==
    /\ Returned("build")
    /\ \E i \in DOMAIN errLog :
          /\ errLog[i].source # call.root
          /\ \E e \in EdgeSet : e.target = EntId(errLog[i].source)

DepthBound == IF call.op = "build" THEN max_initial_depth ELSE ExpandDepth

RECURSIVE Within(_)
\* ids connected to the starting entity by at most k edges of the result
Within(k) ==
    IF k = 0 THEN {RootId}
    ELSE LET W == Within(k - 1)
         IN  W \cup {e.target : e \in {x \in EdgeSet : x.source \in W}}

\* C3: in every result each entity node is connected to the starting entity
\* by a chain of at most d edges, d = 2 for build_graph and 1 for
\* expand_node; only placeholder nodes are exempt.
C3_DepthBound ==
    status = "returned" =>
        \A i \in DOMAIN nodes :
            nodes[i].entity_type # "TreeListNode" =>
                nodes[i].id \in Within(DepthBound)

\* a build_graph result with an entity exactly two hops from the root whose
\* type has relationships the traversal did not follow
C3_Witness ==
    /\ Returned("build")
    /\ \E i \in DOMAIN nodes :
          /\ nodes[i].entity_type # "TreeListNode"
          /\ nodes[i].id \notin Within(1)
          /\ nodes[i].id \in Within(2)
          /\ get_entity_relationships(catalog, nodes[i].entity_type) # <<>>
          /\ nodes[i].id[1] \notin expanded

\* ------------------------------------------------------------------ C4
Rels(n) == get_entity_relationships(catalog, TypeOf(n))

\* entries of nodes that are the placeholder of relationship `name` of sid
PlaceholderNodes(sid, name) ==
    {i \in DOMAIN nodes : nodes[i].id = TreeId(sid, name)}

\* entries of edges from sid to that placeholder
PlaceholderEdges(sid, name) ==
    {i \in DOMAIN edges : /\ edges[i].source = sid
                          /\ edges[i].target = TreeId(sid, name)}

\* entity n has one placeholder node and one edge to it for each of its
\* expensive relationships displayed in the graph
OnePlaceholderEach(n) ==
    \A k \in DOMAIN Rels(n) :
        LET rel == Rels(n)[k]
        IN  (rel.display_in_graph /\ rel.expensive) =>
                /\ Cardinality(PlaceholderNodes(EntId(n), rel.name)) = 1
                /\ Cardinality(PlaceholderEdges(EntId(n), rel.name)) = 1

NoExpensiveFetch ==
    call.op = "build" => \A r \in fetchLog : ~r.expensive

C5_EdgeAlways ==
    Returned("build") =>
        \A r \in fetchLog :
            (r.ok /\ r.label # None) =>
                Edge(EntId(r.source), EntId(r.target), r.label) \in EdgeSet

\* ------------------------------------------------------------------ C6
IsPrefix(a, b) == Len(a) <= Len(b) /\ SubSeq(b, 1, Len(a)) = a

\* a step in which a provider call failed (get_related_entity_ids raised,
\* get_entity_by_id raised or returned nothing) left the result as it was and
\* moved the loop of the same activation to the next related id, or to the
\* next relationship when the failed call was get_related_entity_ids or
\* the id was the last of its list
FetchFailed == \E x \in fetchLog' \ fetchLog : ~x.ok
RelatedFailed == \E r \in relLog' \ relLog : ~r.ok

ErrorSkipped ==
    LET f == stack[Len(stack)]
        g == stack'[Len(stack')]
    IN  /\ nodes' = nodes /\ edges' = edges
        /\ visited_entities' = visited_entities
        /\ status' = "running"
        /\ Len(stack') = Len(stack)
        /\ g.ent = f.ent /\ g.depth = f.depth
        /\ IF FetchFailed /\ f.ii < Len(f.ids)
           THEN g.pc = "ids" /\ g.ri = f.ri /\ g.ids = f.ids /\ g.ii = f.ii + 1
           ELSE g.pc = "rels" /\ g.ri = f.ri + 1

\* in a result, every id of a list in which one fetch failed was tried
AllIdsTried ==
    status = "returned" =>
        \A i \in DOMAIN errLog :
            errLog[i].kind = "fetch" =>
                \A r \in relLog :
                    (r.source = errLog[i].source /\ r.ri = errLog[i].ri /\ r.ok) =>
                        \A ii \in 1..Len(r.ids) :
                            \E x \in fetchLog : /\ x.source = r.source
                                                /\ x.ri = r.ri
                                                /\ x.ii = ii

\* in a result, every relationship after a failed one of an entity whose
\* loop ran to its end was taken up: skipped as hidden, given its
\* placeholder, or asked of the provider
LaterRelsTried ==
    status = "returned" =>
        \A i \in DOMAIN errLog :
            LET n == errLog[i].source
            IN  n \in completed =>
                    \A k \in (errLog[i].ri + 1)..Len(Rels(n)) :
                        LET rel == Rels(n)[k]
                        IN  \/ ~rel.display_in_graph
                            \/ rel.expensive /\ PlaceholderNodes(EntId(n), rel.name) # {}
                            \/ "name" \notin rel.fields
                            \/ \E r \in relLog : r.source = n /\ r.ri = k

C7_NoPropagation ==
    (call.op = "build" /\ nodes # <<>>) => status # "raised"

\* ------------------------------------------------------------------ C9
\* C9: in every result of expand_node the expanded node is not an entry of
\* nodes, every edge starts at the expanded node and ends at an entry of
\* nodes, and no relationship of any other entity was followed.
C9_ExpandShape ==
    Returned("expand") =>
        /\ RootId \notin NodeIds
        /\ \A e \in EdgeSet : e.source = RootId /\ e.target \in NodeIds
        /\ expanded \subseteq {call.root}
        /\ \A r \in relLog : r.source = call.root
        /\ \A r \in fetchLog : r.source = call.root

\* an expand_node result with a placeholder and a neighbour whose type has
\* relationships of its own
C9_Witness ==
    /\ Returned("expand")
    /\ \E i \in DOMAIN nodes : nodes[i].entity_type = "TreeListNode"
    /\ \E i \in DOMAIN nodes :
          /\ nodes[i].entity_type # "TreeListNode"
          /\ Rels(nodes[i].id[1]) # <<>>
          /\ \E e \in EdgeSet : e.target = nodes[i].id

\* ------------------------------------------------------------------ C8
CallStarts == calls' = calls + 1

\* keys whose entry the step created or replaced
Written ==
    {k \in DOMAIN cache_store' :
        k \notin DOMAIN cache_store \/ cache_store'[k] # cache_store[k]}

\* C8: a build_graph that fails (no type resolved, root absent) gives the
\* caller of build_initial_graph an error and no graph, and the step leaves
\* the cache as it was; an entry is written only by a call that computed
\* and whose computation succeeded; the identical call made right after a
\* failed one computes again.
C8_FailedBuildStoresNothing ==
    [][ /\ (svc.pc = "compute" /\ svc'.pc = "done" /\ status = "raised") =>
              /\ svc'.ret = Raised
              /\ cache_store' = cache_store
        /\ \A k \in Written :
              /\ k = svc'.key
              /\ svc'.pc = "done"
              /\ ~svc'.hit /\ svc'.computes = 1
              /\ svc'.ret # Raised
              /\ cache_store'[k].value = svc'.ret
        /\ (CallStarts /\ svc'.after_failure) =>
              ~svc'.hit /\ svc'.computes = 1 ]_vars

\* build_initial_graph failed on a miss, and the identical call after it
\* computed again, succeeded and stored its graph
C8_Witness ==
    /\ svc.op = "build_initial_graph"
    /\ svc.pc = "done"
    /\ svc.after_failure
    /\ svc.ret.kind = "graph"
    /\ svc.key \in DOMAIN cache_store
    /\ cache_store[svc.key].value = svc.ret

\* ----------------------------------------------------------------- C10
\* an entry exists under k and has not expired
Unexpired(k) ==
    /\ k \in DOMAIN cache_store
    /\ \/ cache_store[k].expires_at = NoExpiry
       \/ now <= cache_store[k].expires_at

\* with the cache enabled a call is a hit exactly when an unexpired entry
\* exists; a hit returns the entry's value and computes nothing, a miss
\* computes once
LookupDecides ==
    (CallStarts /\ enabled) =>
        IF Unexpired(svc'.key)
        THEN /\ svc'.hit /\ svc'.pc = "done" /\ svc'.computes = 0
             /\ svc'.ret = cache_store[svc'.key].value
             /\ cache_store' = cache_store
        ELSE ~svc'.hit /\ svc'.computes = 1

\* the step in which a call that missed the enabled cache ends, with the
\* cache still enabled
MissEnds ==
    /\ svc'.pc = "done" /\ ~svc'.hit /\ svc'.en /\ enabled
    /\ CallStarts \/ svc.pc = "compute"

StoredEntry(v, ttl) ==
    [value |-> v, created_at |-> now,
     expires_at |-> now + (IF ttl # 0 THEN ttl ELSE default_ttl)]

\* C10 as stated: with the cache enabled, a call with an unexpired entry
\* returns it and computes nothing; any other call computes once and its
\* result is stored under the key with the TTL (the default TTL of the
\* cache when the decorator names none).
C10_Original ==
    [][ /\ LookupDecides
        /\ (MissEnds /\ svc'.ret # Raised) =>
              /\ svc'.key \in DOMAIN cache_store'
              /\ cache_store'[svc'.key] = StoredEntry(svc'.ret, svc'.ttl) ]_vars

\* C10 (amended): as stated, except that a function wrapped by
\* cached_method that returns None has nothing stored; a computation that
\* raises stores nothing either.
C10_CacheAside ==
    [][ /\ LookupDecides
        /\ MissEnds =>
              IF svc'.ret \notin {Raised, NoneValue}
              THEN /\ svc'.key \in DOMAIN cache_store'
                   /\ cache_store'[svc'.key] = StoredEntry(svc'.ret, svc'.ttl)
              ELSE svc'.key \notin DOMAIN cache_store' ]_vars

\* a call found its entry expired, computed once, and stored the new
\* result, which has not expired
C10_Witness ==
    /\ svc.pc = "done" /\ svc.en /\ enabled
    /\ svc.evicted /\ ~svc.hit /\ svc.computes = 1
    /\ Unexpired(svc.key)
    /\ cache_store[svc.key].created_at = now
    /\ cache_store[svc.key].value = svc.ret

\* ----------------------------------------------------------------- C11
\* the step ends a request
RequestEnds == svc'.pc = "done" /\ (CallStarts \/ svc.pc = "compute")

\* C11: a build-graph request that follows, within the TTL and through the
\* same entry point (REST or GraphQL), a request with the same arguments
\* that was answered with a graph, is answered from the cache with the
\* identical graph and without a traversal.
C11_Idempotent ==
    [][ (/\ RequestEnds
         /\ svc'.prev.kind = "graph"
         /\ now - svc'.prev_at < GraphBuildTtl) =>
            /\ svc'.hit /\ svc'.computes = 0
            /\ svc'.ret = svc'.prev ]_vars

\* ----------------------------------------------------------------- C19
\* C19: a REST graph-build request lacking refDataType, idType or idValue
\* (absent or null) is answered with status 400 and a JSON body with an
\* error object, and neither the graph service nor the cache was touched.
C19_Rejected ==
    (svc.pc = "done" /\ svc.entry = "rest" /\ svc.missing # {}) =>
        /\ svc.code = 400
        /\ svc.body = "error_json"
        /\ ~svc.touched

\* ----------------------------------------------------------------- C12
\* what get(k) has to return by the most recent set(k, v, ttl): v while no
\* delete(k) or clear() followed and ttl is None or fewer than ttl seconds
\* have passed since the set, otherwise None
LatestSet(k) ==
    LET s == svc.sets[k]
    IN  IF s.live /\ (~s.ttl.given \/ now - s.at < s.ttl.secs)
        THEN [stored |-> TRUE, value |-> s.value]
        ELSE [stored |-> FALSE, value |-> NoneValue]

\* C12: after any sequence of set, get, delete and clear, get(k) returns
\* the value of the most recent live, unexpired set(k, v, ttl), for every
\* ttl >= 0, and None otherwise; exists(k) is true exactly when get(k)
\* would return a stored value.
C12_GetLatestSet ==
    /\ (svc.op = "get" /\ svc.at = now) =>
          svc.ret = LatestSet(svc.key).value
    /\ (svc.op = "exists" /\ svc.at = now) =>
          svc.exists = LatestSet(svc.key).stored

\* ----------------------------------------------------------------- C13
\* None, zero, an empty collection, or a graph without nodes and edges
EmptyResult(v) ==
    \/ v.kind \in {"none", "zero"}
    \/ v.kind = "graph" /\ v.nodes = <<>> /\ v.edges = <<>>

\* C13: after build_initial_graph, expand_node or a cached_method wrapper
\* computed an empty result, the cache holds no entry under the call's key.
C13_EmptyNotStored ==
    (svc.pc = "done" /\ svc.computes = 1 /\ EmptyResult(svc.ret)) =>
        svc.key \notin DOMAIN cache_store

\* ----------------------------------------------------------------- C14
\* C14: a call of build_initial_graph or expand_node whose cache fails at
\* key generation, get or set, and whose builder does not fail, returns the
\* computed graph.
C14_CacheFailureDegrades ==
    (svc.pc = "done" /\ svc.fault # "none" /\ ~svc.builder_failed) =>
        svc.ret.kind = "graph"

\* ----------------------------------------------------------------- C15
InBody(t) == svc.pc[t] \in {"get_body", "set_body"}
Computing(t) == svc.pc[t] \in {"compute_root", "compute_rels"}

\* the lock is held only inside a get or a set, by one thread
LockDiscipline ==
    /\ Cardinality({t \in Threads : InBody(t)}) <= 1
    /\ \A t \in Threads : InBody(t) => svc.lock = t
    /\ \A t \in Threads : Computing(t) => svc.lock # t

\* every entry of the map is the complete result of a computation for its
\* key, and a finished computation's key has an entry while its ttl runs
MapConsistent ==
    /\ \A k \in DOMAIN cache_store :
          /\ <<k, cache_store[k].value>> \in svc.finished
          /\ <<k, cache_store[k].value>> \in svc.stored
    /\ \A t \in Threads :
          (/\ svc.pc[t] = "done"
           /\ ~ServiceHit(svc.got[t])
           /\ now <= svc.set_at[t] + OpTtl(svc.op[t]))
          => svc.key[t] \in DOMAIN cache_store

\* what a lookup returned was stored under its key as a complete result
LookupsComplete ==
    \A t \in Threads :
       svc.got[t] # NoneValue =>
          /\ <<svc.key[t], svc.got[t]>> \in svc.stored
          /\ <<svc.key[t], svc.got[t]>> \in svc.finished

\* C15: with concurrent build_initial_graph / expand_node calls on one
\* cache, the lock is held only inside a get or set and never by a thread
\* that computes; the map's entry for a key is the complete result of one
\* of the computations for it; every value a lookup returned is a complete
\* result that was stored under that key.
C15_ConcurrentConsistency ==
    /\ LockDiscipline
    /\ MapConsistent
    /\ LookupsComplete

\* two threads missed on the same key although the first one's entry has
\* not expired, both computed, their graphs differ, and the map holds one
\* of them
C15_Witness ==
    \E t1, t2 \in Threads :
       /\ t1 # t2
       /\ svc.pc[t1] = "done" /\ svc.pc[t2] = "done"
       /\ svc.key[t1] = svc.key[t2]
       /\ ~ServiceHit(svc.got[t1]) /\ ~ServiceHit(svc.got[t2])
       /\ svc.set_at[t1] < svc.set_at[t2]
       /\ svc.set_at[t2] < svc.set_at[t1] + OpTtl(svc.op[t1])
       /\ svc.ret[t1] # svc.ret[t2]
       /\ cache_store[svc.key[t1]].value \in {svc.ret[t1], svc.ret[t2]}

\* ----------------------------------------------------------------- C16
CeilDiv(a, b) == (a + b - 1) \div b

\* what the claim says of an answer
PaginationHolds ==
    LET out == svc.out
        from == (svc.page - 1) * svc.size
    IN  /\ out.total_pages = CeilDiv(out.total_items, svc.size)
        /\ out.total_items = Len(out.listed)
        /\ Len(out.data) <= svc.size
        /\ \A i \in 1..svc.size :
              IF from + i <= Len(out.listed)
              THEN i \in DOMAIN out.data /\ out.data[i] = out.listed[from + i]
              ELSE i \notin DOMAIN out.data
        /\ out.has_next = (svc.page < out.total_pages)
        /\ out.has_next = (Len(out.listed) > svc.page * svc.size)
        /\ out.has_previous = (svc.page > 1)

\* C16 as stated: for page >= 1 and page_size > 0 the options tree list
\* answers total_pages = ceil(total_items / page_size), the rows at offsets
\* (page-1)*page_size up to page*page_size of the filtered and sorted list,
\* at most page_size of them, has_next = page < total_pages, which is to say
\* rows exist beyond the slice, and has_previous = page > 1.
C16_Original ==
    (svc.pc = "done" /\ svc.page >= 1 /\ svc.size > 0) => PaginationHolds

\* C16 amended: the same for a request whose idValue names a
\* sourceEntityId; without one the answer is the empty page, with
\* has_next and has_previous false whatever the page.
C16_Pagination ==
    (svc.pc = "done" /\ svc.page >= 1 /\ svc.size > 0) =>
        IF svc.source # 0 THEN PaginationHolds
        ELSE svc.out = empty_tree_response(svc.page, svc.size)

\* page 2 of size 1 over three options: one row, has_next, has_previous,
\* three pages
C16_Witness ==
    /\ svc.pc = "done"
    /\ svc.source # 0
    /\ svc.page = 2 /\ svc.size = 1
    /\ svc.out.total_items = 3
    /\ Len(svc.out.data) = 1
    /\ svc.out.has_next /\ svc.out.has_previous
    /\ svc.out.total_pages = 3

\* ----------------------------------------------------------------- C17
\* a row satisfies every predicate the filters supply: exact match for the
\* enumerated fields, inclusive range for the date
Satisfies(o, filters) ==
    /\ filters.status # None => o.status = filters.status
    /\ filters.putOrCall # None => o.putOrCall = filters.putOrCall
    /\ filters.exerciseStyle # None => o.exerciseStyle = filters.exerciseStyle
    /\ filters.expirationDate.from # 0 =>
          (o.expirationDate # 0 /\ o.expirationDate >= filters.expirationDate.from)
    /\ filters.expirationDate.to # 0 =>
          (o.expirationDate # 0 /\ o.expirationDate <= filters.expirationDate.to)

\* the rows of the source's options that satisfy the filters
ExpectedRows ==
    {transform_option_to_row(svc.file[i]) :
        i \in {j \in DOMAIN svc.file :
                  /\ svc.source \in svc.file[j].underlyings
                  /\ Satisfies(svc.file[j], svc.filters)}}

\* l is in the order of the sort string: ascending unless it ends in :desc
OrderedBy(l, sort_by) ==
    \A i, j \in DOMAIN l :
       i < j => IF sort_by.direction = "desc"
                THEN l[i][sort_by.field] >= l[j][sort_by.field]
                ELSE l[i][sort_by.field] <= l[j][sort_by.field]

\* C17: build_tree_list keeps exactly the rows that satisfy every supplied
\* filter, total_items counts them, and with a sort_by the list the pages
\* are cut from is ordered by that key, ascending unless ':desc'.
C17_FilterSortPaginate ==
    (svc.pc = "done" /\ svc.source # 0) =>
        /\ {svc.out.listed[i] : i \in DOMAIN svc.out.listed} = ExpectedRows
        /\ svc.out.total_items = Cardinality(ExpectedRows)
        /\ svc.sort_by # NoSort => OrderedBy(svc.out.listed, svc.sort_by)

\* ----------------------------------------------------------------- C18
\* C18: the rendered node has no key for a field that the entity's data
\* lacks.
C18_Sparse ==
    svc.pc = "done" =>
        \A l \in AdditionalLines(svc.type) \cup IdValueLines(svc.type) :
           l.field \notin svc.data =>
              /\ l.key \notin DOMAIN svc.out.additionalLines
              /\ l.key \notin DOMAIN svc.out.idValue

\* ----------------------------------------------------------------- C20
\* Python's ==: dicts are equal when they hold the same items, whatever
\* the order; a list never equals a tuple, an int never a string
PyEq(a, b) ==
    IF a.t = "dict" /\ b.t = "dict"
    THEN {a.items[i] : i \in DOMAIN a.items} = {b.items[i] : i \in DOMAIN b.items}
    ELSE a = b

SameArguments(c1, c2) ==
    /\ c1.prefix = c2.prefix
    /\ Len(c1.args) = Len(c2.args)
    /\ \A i \in DOMAIN c1.args : PyEq(c1.args[i], c2.args[i])
    /\ {c1.kwargs[i] : i \in DOMAIN c1.kwargs} = {c2.kwargs[i] : i \in DOMAIN c2.kwargs}

\* C20: calls with equal prefix and arguments get equal keys, whatever the
\* order of the keyword arguments and of the keys inside dict arguments,
\* and calls that differ in the prefix or in an argument get different keys.
C20_Fingerprint ==
    svc.pc = "done" =>
        /\ SameArguments(svc.c1, svc.c2) => svc.k1 = svc.k2
        /\ ~SameArguments(svc.c1, svc.c2) => svc.k1 # svc.k2

\* ----------------------------------------------------------------- C21
\* the value the manager owes to a get of k: that of the most recent set
\* made while enabled, if no delete or clear followed and it has not
\* expired (ttl or the default of 300 s)
Owed(k) ==
    LET w == svc.sets[k]
        ttl == IF TtlOrNone(w.ttl) # 0 THEN TtlOrNone(w.ttl) ELSE default_ttl
    IN  IF w.live /\ now <= w.at + ttl THEN w.value ELSE NoneValue

\* while disabled only clear changes the underlying cache
DisabledFrame ==
    [][~enabled => (cache_store' = cache_store \/ svc'.op = "clear")]_vars

\* enable and disable touch no entry
SwitchFrame == [][enabled' # enabled => cache_store' = cache_store]_vars

\* a get made while disabled returns None, one made while enabled returns
\* what was written while enabled
GetAnswers ==
    [](/\ (svc.op = "get" /\ ~svc.en) => svc.ret = NoneValue
       /\ (svc.op = "get" /\ svc.en /\ svc.at = now) => svc.ret = Owed(svc.key))

\* C21: while the manager is disabled get returns None and set and delete
\* leave the cache unchanged; enable and disable change no entry; a value
\* set while disabled is never returned, and once enabled again get and
\* set work on the entries written while enabled.
C21_DisabledFrame == DisabledFrame /\ SwitchFrame /\ GetAnswers

\* enabled again, a get returns the value written while enabled although
\* another value was set for the key while disabled
C21_Witness ==
    /\ svc.op = "get" /\ svc.en /\ svc.at = now
    /\ svc.ret # NoneValue
    /\ svc.ignored[svc.key] # NoneValue
    /\ svc.ignored[svc.key] # svc.ret

\* ----------------------------------------------------------------- C22
RECURSIVE WithinOf(_, _, _)
\* ids connected to root by at most k edges of es
WithinOf(es, root, k) ==
    IF k = 0 THEN {root}
    ELSE LET W == WithinOf(es, root, k - 1)
         IN  W \cup {es[i].target : i \in {j \in DOMAIN es : es[j].source \in W}}

\* C22: in every answer of the GraphQL buildGraph query the depth bound the
\* traversal ran with equals the maxDepth of the metadata, which is the
\* requested input.max_depth, and every entity node of the answer is within
\* that many edges of the starting entity.
C22_RequestedDepth ==
    (svc.pc = "done" /\ svc.ret.kind = "graph") =>
        /\ svc.metadata.max_depth = svc.requested
        /\ svc.applied = svc.metadata.max_depth
        /\ \A i \in DOMAIN svc.ret.nodes :
              svc.ret.nodes[i].entity_type # "TreeListNode" =>
                  svc.ret.nodes[i].id \in
                      WithinOf(svc.ret.edges, EntId(svc.root),
                               svc.metadata.max_depth)

\* ----------------------------------------------------------------- C23
\* C23: edges never holds two entries with the same source, target and
\* relationship label, in every state of a build_graph or expand_node
\* traversal and in every result.
C23_NoDuplicateEdge ==
    \A i, j \in DOMAIN edges : edges[i] = edges[j] => i = j

\* a result in which one relationship returned the same id twice, both
\* fetched, and the catalog lists two relationships of the starting entity
\* with equal labels and the same target, the first of which got its edge
C23_Witness ==
    /\ status = "returned"
    /\ \E a, b \in fetchLog :
          /\ a.ok /\ b.ok /\ a.target = b.target
          /\ a.source = b.source /\ a.ri = b.ri /\ a.ii # b.ii
          /\ Edge(EntId(a.source), EntId(a.target), a.label) \in EdgeSet
    /\ call.root \in completed
    /\ \E k, l \in DOMAIN Rels(call.root) :
          /\ k # l
          /\ Rels(call.root)[k].relationship_label = Rels(call.root)[l].relationship_label
          /\ Rels(call.root)[k].name = Rels(call.root)[l].name
          /\ Rels(call.root)[k].expensive /\ Rels(call.root)[l].expensive
          /\ PlaceholderEdges(RootId, Rels(call.root)[k].name) # {}

\* ----------------------------------------------------------------- C24
\* ids of the placeholder entries of nodes
PlaceholderIds ==
    {nodes[i].id : i \in {j \in DOMAIN nodes : nodes[j].entity_type = "TreeListNode"}}

\* the composite ids of the expensive displayed relationships of the
\* entities whose relationship loop began
CompositeIds ==
    UNION {{<<n, Rels(n)[k].name>> :
                k \in {l \in DOMAIN Rels(n) : /\ Rels(n)[l].expensive
                                              /\ Rels(n)[l].display_in_graph}} :
           n \in expanded}

\* C24: in every state of a traversal and in every result, no edge has a
\* placeholder's id as its source, no activation of the recursion and no
\* provider call has a placeholder as its source entity, and every
\* placeholder's id is the composite of the id of an expanded entity and
\* the name of one of its expensive relationships, whatever the count and
\* the time it was built with; each edge into a placeholder comes from the
\* entity its id names.
C24_PlaceholderNotExpanded ==
    /\ \A e \in EdgeSet : e.source \notin PlaceholderIds
    /\ \A i \in DOMAIN stack : EntId(stack[i].ent) \notin PlaceholderIds
    /\ \A r \in relLog \cup fetchLog : EntId(r.source) \notin PlaceholderIds
    /\ \A n \in expanded : EntId(n) \notin PlaceholderIds
    /\ PlaceholderIds \subseteq CompositeIds
    /\ \A e \in EdgeSet :
          e.target \in PlaceholderIds => e.source = EntId(e.target[1])

\* a build_graph result with the placeholders of two entities, one of them
\* with a count taken from the provider, and an edge appended after a
\* placeholder's edge
C24_Witness ==
    /\ Returned("build")
    /\ Cardinality({p[1] : p \in PlaceholderIds}) >= 2
    /\ \E i \in DOMAIN nodes :
          nodes[i].entity_type = "TreeListNode" /\ nodes[i].totalCount > 0
    /\ \E i, j \in DOMAIN edges :
          /\ i < j
          /\ edges[i].target \in PlaceholderIds
          /\ edges[j].target \notin PlaceholderIds

\* ----------------------------------------------------------------- C25
\* the activations are nested one level per frame and none is deeper than
\* the depth bound
DepthWithinBound ==
    /\ Len(stack) <= max_depth + 1
    /\ \A i \in DOMAIN stack : stack[i].depth = i - 1

\* an activation past line 99 has its entity's id in the visited set
VisitedBeforeFollowed ==
    \A i \in DOMAIN stack :
        stack[i].pc # "enter" => EntId(stack[i].ent) \in visited_entities

\* the step takes the top activation from its entry into the relationship
\* loop
BeginsLoop ==
    /\ stack # <<>>
    /\ Top.pc = "enter"
    /\ Len(stack') = Len(stack)
    /\ stack'[Len(stack)].pc = "rels"

\* C25: every build_graph and expand_node call that started a traversal
\* ends, returning or raising, whatever finite lists the providers answer
\* with (cycles and self-references included); an entity's id is in the
\* visited set before its relationships are followed, no entity's
\* relationship loop begins twice in one call, and the recursion is never
\* deeper than the depth bound.
C25_Termination ==
    /\ [](DepthWithinBound /\ VisitedBeforeFollowed)
    /\ [][BeginsLoop => Top.ent \notin expanded]_vars
    /\ (status = "running") ~> (status \in {"returned", "raised"})

\* a finished build_graph call in which an answer named its own source
\* entity as related, and a relationship of another entity led back to the
\* starting entity, which was fetched
C25_Witness ==
    /\ Returned("build")
    /\ \E r \in relLog : r.ok /\ \E i \in DOMAIN r.ids : r.ids[i] = r.source
    /\ \E c \in fetchLog :
          c.ok /\ c.target = call.root /\ c.source # call.root

\* ----------------------------------------------------------------- C26
Invalidations == {"invalidate_pattern", "invalidate_node_cache"}

\* C26: invalidate_pattern with a non-empty pattern leaves the cache empty
\* and returns 1, with the empty pattern leaves the cache as it found it
\* and returns 0; invalidate_node_cache always passes a non-empty pattern;
\* and the build_initial_graph or expand_node call that follows an
\* invalidation with a non-empty pattern misses the cache and computes.
C26_InvalidateClearsAll ==
    /\ [](svc.op \in Invalidations =>
            IF PatternGiven(svc.pattern)
            THEN cache_store = EmptyStore /\ svc.removed = 1
            ELSE cache_store = svc.before /\ svc.removed = 0)
    /\ [](svc.op = "invalidate_node_cache" => PatternGiven(svc.pattern))
    /\ [][ (/\ svc.op \in Invalidations
            /\ PatternGiven(svc.pattern)
            /\ CallStarts) => ~svc'.hit /\ svc'.computes = 1 ]_vars

\* invalidate_node_cache for one entity found the cache enabled and holding
\* the unexpired graph of another entity, and a service call can follow
C26_Witness ==
    /\ svc.op = "invalidate_node_cache"
    /\ enabled
    /\ calls < MaxCalls
    /\ \E k \in DOMAIN svc.before :
          /\ ~is_expired(svc.before[k], now)
          /\ svc.before[k].value.kind = "graph"
          /\ svc.pattern[2] # k[2]

\* ----------------------------------------------------------------- C27
\* entities the data relate to n through a displayed, cheap relationship
Neighbours(n) ==
    UNION {{svc.data[n][Rels(n)[k].name][i] :
                i \in DOMAIN svc.data[n][Rels(n)[k].name]} :
           k \in {l \in DOMAIN Rels(n) : /\ Rels(n)[l].display_in_graph
                                         /\ ~Rels(n)[l].expensive}}

RECURSIVE BreadthFirst(_)
\* entities at most k hops from the starting entity
BreadthFirst(k) ==
    IF k = 0 THEN {call.root}
    ELSE LET W == BreadthFirst(k - 1)
         IN  W \cup UNION {Neighbours(n) : n \in W}

EntityNodeIds ==
    {nodes[i].id : i \in {j \in DOMAIN nodes : nodes[j].entity_type # "TreeListNode"}}

\* C27: with providers that answer from their data without error, the
\* entity nodes of a build_graph result are exactly the entities at most
\* max_initial_depth hops from the starting entity over displayed, cheap
\* relationships, in either order of the catalog's relationships.
C27_SameAsBreadthFirst ==
    Returned("build") =>
        EntityNodeIds = {EntId(n) : n \in BreadthFirst(max_initial_depth)}

\* ----------------------------------------------------------------- C28
\* entries of edges that end at id
EdgesInto(id) == {i \in DOMAIN edges : edges[i].target = id}

\* C28: in every build_graph result the starting entity is the target of no
\* edge, each other node is the target of exactly one, and edges has one
\* entry fewer than nodes; in every expand_node result each node is the
\* target of exactly one edge and edges has as many entries as nodes.
C28_Tree ==
    /\ Returned("build") =>
          /\ EdgesInto(RootId) = {}
          /\ \A i \in DOMAIN nodes :
                nodes[i].id # RootId => Cardinality(EdgesInto(nodes[i].id)) = 1
          /\ Len(edges) = Len(nodes) - 1
    /\ Returned("expand") =>
          /\ \A i \in DOMAIN nodes : Cardinality(EdgesInto(nodes[i].id)) = 1
          /\ Len(edges) = Len(nodes)

\* ----------------------------------------------------------------- C29
\* C29: a call that had missed the cache and was computing or waiting to
\* store when the cache was cleared leaves no entry behind when it stores,
\* and no lookup returns an entry written by such a call.
C29_NoStaleInsert ==
    /\ [][ \A t \in Threads :
              (/\ svc.pc[t] = "set_body" /\ svc'.pc[t] = "done"
               /\ t \in svc.stale)
              => svc.key[t] \notin DOMAIN cache_store' ]_vars
    /\ [][ \A t \in Threads :
              (/\ svc.pc[t] = "get_body" /\ svc'.pc[t] # "get_body"
               /\ svc'.got[t] # NoneValue)
              => svc.key[t] \notin svc.tainted ]_vars

\* ----------------------------------------------------------------- C30
\* C30: the options tree list never answers a negative total_pages, and it
\* answers rows only to a request with page_size > 0 and
\* 1 <= page <= total_pages: for page <= 0, page > total_pages or
\* page_size <= 0 the data list is empty.
C30_RowsOnlyInRange ==
    svc.pc = "done" =>
        /\ svc.out.total_pages >= 0
        /\ ~(svc.size > 0 /\ 1 <= svc.page /\ svc.page <= svc.out.total_pages)
              => svc.out.data = <<>>

====
